---- MODULE Spec2Model ----
(***************************************************************************)
(* A model of chkcrontab_lib.py: the cron time field parser (FSM, the      *)
(* action_* functions, InitCronFSM, the CT* token classes), the LogCounter *)
(* and the check_crontab driver.                                           *)
(*                                                                         *)
(* A Python str is modelled as a sequence of one-character strings, so     *)
(* that a field can be read character by character as FSM.Run reads it.    *)
(***************************************************************************)
EXTENDS Integers, Sequences, FiniteSets, TLC

VARIABLES
  \* ---- FSM.Run (one parse of one field on one FSM instance)
  data_in,        \* the argument of Run
  data_out_init,  \* FSM.data_out_init
  fsm_pc,         \* "idle" | "loop" | "returned" | "raised"
  idx,            \* position of the for loop in data_in (1-based)
  cur_state,      \* Run's cur_state
  parsed,         \* Run's parsed
  data_out,       \* Run's data_out
  steps,          \* loop iterations executed by the current Run
  run_no,         \* number of Run calls started on this FSM instance
  prev_out,       \* what the previous Run call on this instance returned
  \* ---- check_crontab (one call)
  crontab_file,       \* the argument: whether the path exists, its basename
  whitelisted_users,  \* the argument: the user names in it ({} for None)
  USER_WHITELIST,     \* the module's global
  log,                \* the LogCounter passed in
  output,             \* what has been printed, in order
  pc,                 \* "call" | "lines" | "validate" | "done" | "raised"
  file,               \* the lines read from the file so far
  cur_line_no,        \* check_crontab's line_no
  cur_line,           \* check_crontab's line, stripped
  pending,            \* the calls ValidateAndLog has still to make on log
  validated,          \* per line read, the calls of its ValidateAndLog
  rc,                 \* what check_crontab returned
  \* ---- CTFUnitTest.FieldTest (the diagnostics of the tokens of one field)
  ctf_pc,               \* "call" | "loop" | "done" | "raised"
  field_name,           \* the argument: the name of the field
  field_data,           \* the argument: the text of the field
  ctf_parsed,           \* FieldTest's parsed: what Run returned
  cron_times_left,      \* the tokens the for loop has still to visit
  field_action,         \* the token the for loop visited last
  last_diagnostics,     \* what its GetDiagnostics returned
  actual_field_errors,  \* FieldTest's actual_field_errors
  \* ---- several Run calls in progress on one FSM instance
  the_fsm,        \* the instance: data_out_init, states, end
  parses,         \* per call of Run: its argument and its local variables
  \* ---- several check_crontab calls in one process
  call_no         \* number of check_crontab calls started

fsm_vars == <<data_in, data_out_init, fsm_pc, idx, cur_state, parsed,
              data_out, steps, run_no, prev_out>>

chk_vars == <<crontab_file, whitelisted_users, USER_WHITELIST, log, output,
              pc, file, cur_line_no, cur_line, pending, validated, rc>>

ctf_vars == <<ctf_pc, field_name, field_data, ctf_parsed, cron_times_left,
              field_action,
              last_diagnostics, actual_field_errors>>

par_vars == <<the_fsm, parses>>

vars == <<fsm_vars, chk_vars, ctf_vars, par_vars, call_no>>

(***************************************************************************)
(* Bounds of the model.                                                    *)
(***************************************************************************)
MaxLen == 4
MaxElems == 3
MaxRuns == 2
MaxLines == 3
MaxNum == 61

(***************************************************************************)
(* Characters and conversions.                                             *)
(***************************************************************************)
None == "None"

EmptyDict == [x \in {} |-> x]

\* A loop variable before the first iteration of its loop.
Unbound == [kind |-> "unbound"]

\* string.digits, in order: the digit of value v is Digits[v + 1].
Digits == <<"0", "1", "2", "3", "4", "5", "6", "7", "8", "9">>

DigitSet == {Digits[i] : i \in 1..Len(Digits)}

\* string.ascii_letters
AsciiLetters ==
  {"a", "b", "c", "d", "e", "f", "g", "h", "i", "j", "k", "l", "m",
   "n", "o", "p", "q", "r", "s", "t", "u", "v", "w", "x", "y", "z",
   "A", "B", "C", "D", "E", "F", "G", "H", "I", "J", "K", "L", "M",
   "N", "O", "P", "Q", "R", "S", "T", "U", "V", "W", "X", "Y", "Z"}

DigitVal(c) == (CHOOSE i \in 1..Len(Digits) : Digits[i] = c) - 1

\* int(s) raises ValueError unless s is a non-empty string of digits.
IntRaises(s) == Len(s) = 0 \/ \E i \in 1..Len(s) : s[i] \notin DigitSet

\* int(s) for a non-empty string of ASCII digits.
RECURSIVE IntOf(_)
IntOf(s) ==
  IF Len(s) = 0 THEN 0
  ELSE IntOf(SubSeq(s, 1, Len(s) - 1)) * 10 + DigitVal(s[Len(s)])

\* A wrong '%d': writes the digits least significant first.
RECURSIVE StrOfIntReversed(_)
StrOfIntReversed(n) ==
  IF n < 0 THEN <<"-">> \o StrOfIntReversed(0 - n)
  ELSE IF n < 10 THEN <<Digits[n + 1]>>
  ELSE <<Digits[(n % 10) + 1]>> \o StrOfIntReversed(n \div 10)

\* '%d' % n
RECURSIVE StrOfInt(_)
StrOfInt(n) ==
  IF n < 0 THEN <<"-">> \o StrOfInt(0 - n)
  ELSE IF n < 10 THEN <<Digits[n + 1]>>
  ELSE StrOfInt(n \div 10) \o <<Digits[(n % 10) + 1]>>

(***************************************************************************)
(* The token classes: __init__ sets _kind, the fields given and _text.     *)
(* A field the constructor leaves None is absent from the record.          *)
(***************************************************************************)
CTTime(start_time) ==
  [kind |-> "time", start |-> start_time, text |-> StrOfInt(start_time)]

CTRange(start_time, end_time) ==
  [kind |-> "range", start |-> start_time, end |-> end_time,
   text |-> StrOfInt(start_time) \o <<"-">> \o StrOfInt(end_time)]

CTRangeStep(start_time, end_time, step_count) ==
  [kind |-> "range_step", start |-> start_time, end |-> end_time,
   step |-> step_count,
   text |-> StrOfInt(start_time) \o <<"-">> \o StrOfInt(end_time)
            \o <<"/">> \o StrOfInt(step_count)]

CTStar == [kind |-> "star", text |-> <<"*">>]

CTStarStep(step_count) ==
  [kind |-> "star_step", step |-> step_count,
   text |-> <<"*", "/">> \o StrOfInt(step_count)]

CTText(start_time) ==
  [kind |-> "text", start |-> start_time, text |-> start_time]

CTTextRange(start_time, end_time) ==
  [kind |-> "text_range", start |-> start_time, end |-> end_time,
   text |-> start_time \o <<"-">> \o end_time]

\* A wrong CTTextRangeStep: _text is formatted as for CTTextRange.
CTTextRangeStepNoStep(start_time, end_time, step_count) ==
  [kind |-> "text_range_step", start |-> start_time, end |-> end_time,
   step |-> step_count,
   text |-> start_time \o <<"-">> \o end_time]

CTTextRangeStep(start_time, end_time, step_count) ==
  [kind |-> "text_range_step", start |-> start_time, end |-> end_time,
   step |-> step_count,
   text |-> start_time \o <<"-">> \o end_time \o <<"/">>
            \o StrOfInt(step_count)]

(***************************************************************************)
(* The actions of the FSM.  An action is named by the name of its Python   *)
(* function; ActionRaises tells whether the call raises (an int() of a     *)
(* string that is not a number), Apply gives data_out after the call.      *)
(***************************************************************************)
ActionRaises(action, d) ==
  CASE action = "action_time_comma" -> IntRaises(d.time)
    [] action = "action_star_step_comma" -> IntRaises(d.step)
    [] action = "action_range_comma" -> IntRaises(d.range) \/ IntRaises(d.time)
    [] action = "action_range_step_comma" ->
         IntRaises(d.range) \/ IntRaises(d.time) \/ IntRaises(d.step)
    [] action = "action_text_range_step_comma" -> IntRaises(d.step)
    [] OTHER -> FALSE

action_time(d, char) == [d EXCEPT !.time = @ \o <<char>>]

action_star(d, char) == [d EXCEPT !.time = <<char>>]

action_dash(d, char) == [d EXCEPT !.range = d.time, !.time = <<>>]

action_step(d, char) == [d EXCEPT !.step = @ \o <<char>>]

action_noop(d, char) == d

\* A wrong action_time_comma: the token is appended, time is not reset.
action_time_comma_keep(d) ==
  [d EXCEPT !.cron_times = Append(@, CTTime(IntOf(d.time)))]

action_time_comma(d) ==
  [d EXCEPT !.cron_times = Append(@, CTTime(IntOf(d.time))), !.time = <<>>]

action_star_comma(d) ==
  [d EXCEPT !.cron_times = Append(@, CTStar), !.time = <<>>]

action_star_step_comma(d) ==
  [d EXCEPT !.cron_times = Append(@, CTStarStep(IntOf(d.step))),
            !.time = <<>>, !.step = <<>>]

action_text_comma(d) ==
  [d EXCEPT !.cron_times = Append(@, CTText(d.time)), !.time = <<>>]

action_range_comma(d) ==
  [d EXCEPT !.cron_times = Append(@, CTRange(IntOf(d.range), IntOf(d.time))),
            !.range = <<>>, !.time = <<>>]

action_text_range_comma(d) ==
  [d EXCEPT !.cron_times = Append(@, CTTextRange(d.range, d.time)),
            !.range = <<>>, !.time = <<>>]

action_range_step_comma(d) ==
  [d EXCEPT !.cron_times =
              Append(@, CTRangeStep(IntOf(d.range), IntOf(d.time),
                                    IntOf(d.step))),
            !.range = <<>>, !.time = <<>>, !.step = <<>>]

action_text_range_step_comma(d) ==
  [d EXCEPT !.cron_times =
              Append(@, CTTextRangeStep(d.range, d.time, IntOf(d.step))),
            !.range = <<>>, !.time = <<>>, !.step = <<>>]

\* action(data_out, char), and self.end[cur_state](data_out) with char = "".
Apply(action, d, char) ==
  CASE action = "action_time" -> action_time(d, char)
    [] action = "action_star" -> action_star(d, char)
    [] action = "action_dash" -> action_dash(d, char)
    [] action = "action_step" -> action_step(d, char)
    [] action = "action_noop" -> action_noop(d, char)
    [] action = "action_time_comma" -> action_time_comma(d)
    [] action = "action_star_comma" -> action_star_comma(d)
    [] action = "action_star_step_comma" -> action_star_step_comma(d)
    [] action = "action_text_comma" -> action_text_comma(d)
    [] action = "action_range_comma" -> action_range_comma(d)
    [] action = "action_text_range_comma" -> action_text_range_comma(d)
    [] action = "action_range_step_comma" -> action_range_step_comma(d)
    [] action = "action_text_range_step_comma" ->
         action_text_range_step_comma(d)

(***************************************************************************)
(* class FSM.  states maps a state to a map from a character to            *)
(* <<action, next_state>>; end maps a state to its end action.             *)
(***************************************************************************)
FSM(init) == [data_out_init |-> init, states |-> EmptyDict, end |-> EmptyDict]

AddTransition(fsm, chars, state, action, next_state) ==
  LET old == IF state \in DOMAIN fsm.states THEN fsm.states[state]
             ELSE EmptyDict
      new == [c \in chars |-> <<action, next_state>>] @@ old
  IN  [fsm EXCEPT !.states = (state :> new) @@ @]

AddEndState(fsm, state, action) ==
  [fsm EXCEPT !.end = (state :> action) @@ @]

\* The calls InitCronFSM makes on fsm, in order: ("T", chars, state, action,
\* next_state) is an AddTransition, ("E", state, action) an AddEndState.
StarCalls ==
  << \* Case: *
     <<"T", {"*"}, "start", "action_star", "star">>,
     <<"T", {"*"}, "next", "action_star", "star">>,
     <<"E", "star", "action_star_comma">>,
     <<"T", {","}, "star", "action_star_comma", "next">>,
     \* Case: */<number>
     <<"T", {"/"}, "star", "action_noop", "start_star_step">>,
     <<"T", DigitSet, "start_star_step", "action_step", "star_step">>,
     <<"T", DigitSet, "star_step", "action_step", "star_step">>,
     <<"E", "star_step", "action_star_step_comma">>,
     <<"T", {","}, "star_step", "action_star_step_comma", "next">> >>

NumberCalls ==
  << \* Case: <number>
     <<"T", DigitSet, "start", "action_time", "time">>,
     <<"T", DigitSet, "next", "action_time", "time">>,
     <<"T", DigitSet, "time", "action_time", "time">>,
     <<"E", "time", "action_time_comma">>,
     <<"T", {","}, "time", "action_time_comma", "next">>,
     \* Case: <number>-<number>
     <<"T", {"-"}, "time", "action_dash", "start_range">>,
     <<"T", DigitSet, "start_range", "action_time", "range">>,
     <<"T", DigitSet, "range", "action_time", "range">>,
     <<"E", "range", "action_range_comma">>,
     <<"T", {","}, "range", "action_range_comma", "next">>,
     \* Case: <number>-<number>/<number>
     <<"T", {"/"}, "range", "action_noop", "start_range_step">>,
     <<"T", DigitSet, "start_range_step", "action_step", "range_step">>,
     <<"T", DigitSet, "range_step", "action_step", "range_step">>,
     <<"E", "range_step", "action_range_step_comma">>,
     <<"T", {","}, "range_step", "action_range_step_comma", "next">> >>

TextCalls ==
  << \* Case: <text>
     <<"T", AsciiLetters, "start", "action_time", "text">>,
     <<"T", AsciiLetters, "next", "action_time", "text">>,
     <<"T", AsciiLetters, "text", "action_time", "text">>,
     <<"E", "text", "action_text_comma">>,
     <<"T", {","}, "text", "action_text_comma", "next">>,
     \* Case: <text>-<text>
     <<"T", {"-"}, "text", "action_dash", "start_text_range">>,
     <<"T", AsciiLetters, "start_text_range", "action_time", "text_range">>,
     <<"T", AsciiLetters, "text_range", "action_time", "text_range">>,
     <<"E", "text_range", "action_text_range_comma">>,
     <<"T", {","}, "text_range", "action_text_range_comma", "next">>,
     \* Case: <text>-<text>/<number>
     <<"T", {"/"}, "text_range", "action_noop", "start_text_range_step">>,
     <<"T", DigitSet, "start_text_range_step", "action_step",
       "text_range_step">>,
     <<"T", DigitSet, "text_range_step", "action_step", "text_range_step">>,
     <<"E", "text_range_step", "action_text_range_step_comma">>,
     <<"T", {","}, "text_range_step", "action_text_range_step_comma",
       "next">> >>

\* A wrong table: a field may end right after a separator.
CronFSMCallsTrailingComma ==
  StarCalls \o NumberCalls \o TextCalls \o << <<"E", "next", "action_noop">> >>

\* A wrong table: the '/' that starts a step may be repeated.
CronFSMCallsRepeatedSlash ==
  StarCalls \o NumberCalls \o TextCalls
  \o << <<"T", {"/"}, "start_star_step", "action_noop", "start_star_step">>,
        <<"T", {"/"}, "start_range_step", "action_noop", "start_range_step">>,
        <<"T", {"/"}, "start_text_range_step", "action_noop",
          "start_text_range_step">> >>

\* A wrong table: a step may follow a single number or a single name.
CronFSMCallsStepAfterOne ==
  StarCalls \o NumberCalls \o TextCalls
  \o << <<"T", {"/"}, "time", "action_noop", "start_star_step">>,
        <<"T", {"/"}, "text", "action_noop", "start_star_step">> >>

CronFSMCalls == StarCalls \o NumberCalls \o TextCalls

RECURSIVE MakeCalls(_, _, _)
MakeCalls(fsm, calls, i) ==
  IF i > Len(calls) THEN fsm
  ELSE LET c == calls[i]
       IN  MakeCalls(IF c[1] = "T"
                       THEN AddTransition(fsm, c[2], c[3], c[4], c[5])
                       ELSE AddEndState(fsm, c[2], c[3]),
                     calls, i + 1)

InitCronFSM ==
  MakeCalls(FSM([time |-> <<>>, range |-> <<>>, step |-> <<>>,
                 cron_times |-> <<>>]),
            CronFSMCalls, 1)

(***************************************************************************)
(* FSM.Run.                                                                *)
(***************************************************************************)
\* self.states.get(cur_state, {}).get(char, (None, None))
Lookup(fsm, state, char) ==
  IF state \in DOMAIN fsm.states /\ char \in DOMAIN fsm.states[state]
    THEN fsm.states[state][char]
    ELSE <<None, None>>

\* data_out['parser_error'] = value
SetParserError(d, value) == ("parser_error" :> value) @@ d

\* A wrong error text: the unconsumed suffix starts at the offending
\* character, data_in[len(parsed):].
NoTransitionErrorFromChar(p, char, input) ==
  [parsed |-> p, char |-> char,
   rest |-> SubSeq(input, Len(p) + 1, Len(input))]

\* '"%s[[%s]]%s"' % (parsed, char, data_in[len(parsed)+1:len(data_in)])
NoTransitionError(p, char, input) ==
  [parsed |-> p, char |-> char,
   rest |-> SubSeq(input, Len(p) + 2, Len(input))]

\* '"%s" is incomplete' % parsed
IncompleteError(p) == [incomplete |-> p]

\* copy.deepcopy(self.data_out_init): a value of its own.
DeepCopy(d) == d

\* A wrong loop body: on a character without a transition the element read
\* so far is completed by its end action before the error is returned.
LoopBodyFlush(fsm, rs, input, char) ==
  LET tr == Lookup(fsm, rs.cur_state, char)
      flushed == IF rs.cur_state \in DOMAIN fsm.end
                   THEN Apply(fsm.end[rs.cur_state], rs.data_out, "")
                   ELSE rs.data_out
  IN  IF tr[1] = None
        THEN [rs EXCEPT !.pc = "returned",
                        !.data_out =
                          SetParserError(flushed,
                                         NoTransitionError(rs.parsed, char,
                                                           input))]
      ELSE [rs EXCEPT !.data_out = Apply(tr[1], @, char),
                      !.cur_state = tr[2],
                      !.parsed = @ \o <<char>>]

\* One iteration of the for loop on a run state
\* [pc, cur_state, parsed, data_out].
LoopBody(fsm, rs, input, char) ==
  LET tr == Lookup(fsm, rs.cur_state, char)
  IN  IF tr[1] = None
        THEN [rs EXCEPT !.pc = "returned",
                        !.data_out =
                          SetParserError(@, NoTransitionError(rs.parsed, char,
                                                              input))]
      ELSE IF ActionRaises(tr[1], rs.data_out)
        THEN [rs EXCEPT !.pc = "raised"]
      ELSE [rs EXCEPT !.data_out = Apply(tr[1], @, char),
                      !.cur_state = tr[2],
                      !.parsed = @ \o <<char>>]

\* A wrong end of Run: self.end[cur_state] without the test that cur_state
\* is in self.end, a KeyError in a state without an end action.
AfterLoopNoTest(fsm, rs) ==
  IF rs.cur_state \notin DOMAIN fsm.end
    THEN [rs EXCEPT !.pc = "raised"]
  ELSE [rs EXCEPT !.pc = "returned",
                  !.data_out = Apply(fsm.end[rs.cur_state], @, "")]

\* The statements after the for loop.
AfterLoop(fsm, rs) ==
  IF rs.cur_state \notin DOMAIN fsm.end
    THEN [rs EXCEPT !.pc = "returned",
                    !.data_out = SetParserError(@, IncompleteError(rs.parsed))]
  ELSE IF ActionRaises(fsm.end[rs.cur_state], rs.data_out)
    THEN [rs EXCEPT !.pc = "raised"]
  ELSE [rs EXCEPT !.pc = "returned",
                  !.data_out = Apply(fsm.end[rs.cur_state], @, "")]

RECURSIVE RunFrom(_, _, _, _)
RunFrom(fsm, rs, input, i) ==
  IF rs.pc # "loop" THEN rs
  ELSE IF i > Len(input) THEN AfterLoop(fsm, rs)
  ELSE RunFrom(fsm, LoopBody(fsm, rs, input, input[i]), input, i + 1)

\* fsm.Run(input) as a function of its argument: the run state it ends in.
RunState(fsm, input) ==
  RunFrom(fsm,
          [pc |-> "loop", cur_state |-> "start", parsed |-> <<>>,
           data_out |-> DeepCopy(fsm.data_out_init)],
          input, 1)

\* What InitCronFSM().Run(input) returns (for a call that does not raise).
Run(input) == RunState(InitCronFSM, input).data_out

(***************************************************************************)
(* The parser as a state machine: Run is called MaxRuns times with the     *)
(* same field on one FSM instance built by InitCronFSM.                    *)
(***************************************************************************)
\* The characters short fields are made of: two digits, a letter, the four
\* structural characters and a character no transition reads.
Alphabet == {"0", "1", "a", "*", "-", "/", ",", "$"}

ShortFields == UNION {[1..n -> Alphabet] : n \in 0..MaxLen}

\* Elements of each of the eight kinds, for the fields that are lists.
ElemTexts ==
  { <<"*">>,
    <<"*", "/", "1", "0">>,
    <<"3">>,
    <<"0", "5">>,
    <<"1", "-", "9">>,
    <<"1", "1", "-", "4", "/", "0", "2">>,
    <<"m", "o", "n">>,
    <<"M", "o", "-", "f", "r", "i">>,
    <<"a", "-", "b", "/", "3">> }

RECURSIVE JoinComma(_)
JoinComma(elems) ==
  IF Len(elems) = 0 THEN <<>>
  ELSE IF Len(elems) = 1 THEN elems[1]
  ELSE elems[1] \o <<",">> \o JoinComma(Tail(elems))

ListFields ==
  UNION {{JoinComma(es) : es \in [1..n -> ElemTexts]} : n \in 1..MaxElems}

\* Fields of the tests (testComplexErrors, testComplex).
TestFields ==
  { <<"1", "-", "5", "5", ",", "3", "4", "/", "/", "3", ",", "6", "-", "9">>,
    <<"2", "3", ",", "*", "*", ",", "3", "3">>,
    <<"m", "o", "n", ",", "3", ",", "*", ",", "*", "/", "2", ",",
      "m", "o", "n", "-", "f", "r", "i", ",", "1", "-", "2", ",",
      "3", "-", "4", "/", "2">> }

Fields == ShortFields \cup ListFields \cup TestFields

RunVars(rs) ==
  /\ fsm_pc' = rs.pc
  /\ cur_state' = rs.cur_state
  /\ parsed' = rs.parsed
  /\ data_out' = rs.data_out

CurRun ==
  [pc |-> fsm_pc, cur_state |-> cur_state, parsed |-> parsed,
   data_out |-> data_out]

InitFSM ==
  /\ data_in \in Fields
  /\ data_out_init = InitCronFSM.data_out_init
  /\ fsm_pc = "idle"
  /\ idx = 1
  /\ cur_state = "start"
  /\ parsed = <<>>
  /\ data_out = EmptyDict
  /\ steps = 0
  /\ run_no = 0
  /\ prev_out = None
  /\ crontab_file = None
  /\ whitelisted_users = {}
  /\ USER_WHITELIST = {}
  /\ log = None
  /\ output = <<>>
  /\ pc = "none"
  /\ file = <<>>
  /\ cur_line_no = 0
  /\ cur_line = <<>>
  /\ pending = <<>>
  /\ validated = <<>>
  /\ rc = None
  /\ ctf_pc = "none"
  /\ field_name = None
  /\ field_data = <<>>
  /\ ctf_parsed = EmptyDict
  /\ cron_times_left = <<>>
  /\ field_action = Unbound
  /\ last_diagnostics = <<>>
  /\ actual_field_errors = <<>>
  /\ the_fsm = None
  /\ parses = <<>>
  /\ call_no = 0

\* Run is called: lines 153-155.
RunStart ==
  /\ fsm_pc = "idle"
  /\ run_no < MaxRuns
  /\ run_no' = run_no + 1
  /\ data_out' = DeepCopy(data_out_init)
  /\ cur_state' = "start"
  /\ parsed' = <<>>
  /\ idx' = 1
  /\ steps' = 0
  /\ fsm_pc' = "loop"
  /\ UNCHANGED <<data_in, data_out_init, prev_out>>
  /\ UNCHANGED <<chk_vars, ctf_vars, par_vars, call_no>>

\* One iteration of the for loop: lines 156-166.
RunLoop ==
  /\ fsm_pc = "loop"
  /\ idx <= Len(data_in)
  /\ RunVars(LoopBody(InitCronFSM, CurRun, data_in, data_in[idx]))
  /\ idx' = idx + 1
  /\ steps' = steps + 1
  /\ UNCHANGED <<data_in, data_out_init, run_no, prev_out>>
  /\ UNCHANGED <<chk_vars, ctf_vars, par_vars, call_no>>

\* The input is exhausted: lines 167-171.
RunEnd ==
  /\ fsm_pc = "loop"
  /\ idx > Len(data_in)
  /\ RunVars(AfterLoop(InitCronFSM, CurRun))
  /\ UNCHANGED <<data_in, data_out_init, idx, steps, run_no, prev_out>>
  /\ UNCHANGED <<chk_vars, ctf_vars, par_vars, call_no>>

\* The caller takes what Run returned and may call Run again.
RunReturn ==
  /\ fsm_pc = "returned"
  /\ run_no < MaxRuns
  /\ prev_out' = data_out
  /\ fsm_pc' = "idle"
  /\ UNCHANGED <<data_in, data_out_init, idx, cur_state, parsed, data_out,
                 steps, run_no>>
  /\ UNCHANGED <<chk_vars, ctf_vars, par_vars, call_no>>

NextFSM == RunStart \/ RunLoop \/ RunEnd \/ RunReturn

SpecFSM == InitFSM /\ [][NextFSM]_vars

(***************************************************************************)
(* Several calls of Run in progress on one FSM instance, as the loop of    *)
(* RunFSMOnFields makes them one after another on self.fsm, and as         *)
(* callers sharing the instance would make them at once.  A call reads     *)
(* self.data_out_init, self.states and self.end; its own variables are     *)
(* data_out, cur_state and parsed.  The calls take their loop iterations   *)
(* in any order.                                                           *)
(***************************************************************************)
MaxParses == 2

Parses == 1..MaxParses

\* The fields given to the calls.
ParFields ==
  { <<>>,
    <<"1">>,
    <<"*", ",", "2">>,
    <<"1", "-", "2", ",", "a">>,
    <<"1", ",">>,
    <<"$">>,
    <<"*", "/", "2", ",", "3">>,
    <<"a", "-", "b", "/", "2">> }

\* A wrong copy: copy.copy, which copies the dictionary and leaves the list
\* cron_times the one of self.data_out_init.
SharedWithInitShallow == {"cron_times"}

\* The keys of data_out whose value is the very object that
\* self.data_out_init holds under the key: copy.deepcopy copies the list
\* cron_times too, so there is none.
SharedWithInit == {}

\* data_out as the call sees it: a shared value is read in the instance.
Seen(fsm, d) ==
  [k \in DOMAIN d |->
     IF k \in SharedWithInit THEN fsm.data_out_init[k] ELSE d[k]]

\* The instance after an action has worked on data_out: list.append on a
\* shared list is seen in the instance.
Written(fsm, d) ==
  [fsm EXCEPT !.data_out_init =
     [k \in DOMAIN @ |-> IF k \in SharedWithInit THEN d[k] ELSE @[k]]]

\* No call of Run in progress.
NoParse ==
  [data_in |-> <<>>, pc |-> "idle", idx |-> 1, cur_state |-> "start",
   parsed |-> <<>>, data_out |-> EmptyDict]

\* The run state [pc, cur_state, parsed, data_out] of call p.
ParRun(p) ==
  [pc |-> parses[p].pc, cur_state |-> parses[p].cur_state,
   parsed |-> parses[p].parsed,
   data_out |-> Seen(the_fsm, parses[p].data_out)]

\* Call p goes on in the run state rs.
ParVars(p, rs) ==
  /\ parses' = [parses EXCEPT ![p].pc = rs.pc,
                              ![p].cur_state = rs.cur_state,
                              ![p].parsed = rs.parsed,
                              ![p].data_out = rs.data_out,
                              ![p].idx = IF parses[p].idx <=
                                            Len(parses[p].data_in)
                                           THEN @ + 1 ELSE @]
  /\ the_fsm' = Written(the_fsm, rs.data_out)

InitPar ==
  /\ the_fsm = InitCronFSM
  /\ parses = [p \in Parses |-> NoParse]
  /\ call_no = 0
  /\ data_in = <<>>
  /\ data_out_init = InitCronFSM.data_out_init
  /\ fsm_pc = "none"
  /\ idx = 1
  /\ cur_state = "start"
  /\ parsed = <<>>
  /\ data_out = EmptyDict
  /\ steps = 0
  /\ run_no = 0
  /\ prev_out = None
  /\ crontab_file = None
  /\ whitelisted_users = {}
  /\ USER_WHITELIST = {}
  /\ log = None
  /\ output = <<>>
  /\ pc = "none"
  /\ file = <<>>
  /\ cur_line_no = 0
  /\ cur_line = <<>>
  /\ pending = <<>>
  /\ validated = <<>>
  /\ rc = None
  /\ ctf_pc = "none"
  /\ field_name = None
  /\ field_data = <<>>
  /\ ctf_parsed = EmptyDict
  /\ cron_times_left = <<>>
  /\ field_action = Unbound
  /\ last_diagnostics = <<>>
  /\ actual_field_errors = <<>>

\* Run is called on the instance while other calls may be in progress:
\* lines 153-155.
ParStart(p) ==
  /\ parses[p].pc \in {"idle", "returned", "raised"}
  /\ run_no <= MaxRuns
  /\ run_no' = run_no + 1
  /\ \E f \in ParFields :
       parses' = [parses EXCEPT ![p] =
                    [data_in |-> f, pc |-> "loop", idx |-> 1,
                     cur_state |-> "start", parsed |-> <<>>,
                     data_out |-> DeepCopy(the_fsm.data_out_init)]]
  /\ UNCHANGED <<the_fsm, call_no>>
  /\ UNCHANGED <<data_in, data_out_init, fsm_pc, idx, cur_state, parsed,
                 data_out, steps, prev_out>>
  /\ UNCHANGED <<chk_vars, ctf_vars>>

\* One iteration of the for loop of call p: lines 156-166.
ParLoop(p) ==
  /\ parses[p].pc = "loop"
  /\ parses[p].idx <= Len(parses[p].data_in)
  /\ ParVars(p, LoopBody(the_fsm, ParRun(p), parses[p].data_in,
                         parses[p].data_in[parses[p].idx]))
  /\ UNCHANGED <<fsm_vars, chk_vars, ctf_vars, call_no>>

\* The input of call p is exhausted: lines 167-171.
ParEnd(p) ==
  /\ parses[p].pc = "loop"
  /\ parses[p].idx > Len(parses[p].data_in)
  /\ ParVars(p, AfterLoop(the_fsm, ParRun(p)))
  /\ UNCHANGED <<fsm_vars, chk_vars, ctf_vars, call_no>>

NextPar == \E p \in Parses : ParStart(p) \/ ParLoop(p) \/ ParEnd(p)

SpecPar == InitPar /\ [][NextPar]_vars

(***************************************************************************)
(* Strings.                                                                *)
(***************************************************************************)
\* string.whitespace, and \s of re, without the vertical tab.
Whitespace == {" ", "\t", "\n", "\r", "\f"}

LowerLetters == <<"a", "b", "c", "d", "e", "f", "g", "h", "i", "j", "k", "l",
                  "m", "n", "o", "p", "q", "r", "s", "t", "u", "v", "w", "x",
                  "y", "z">>

UpperLetters == <<"A", "B", "C", "D", "E", "F", "G", "H", "I", "J", "K", "L",
                  "M", "N", "O", "P", "Q", "R", "S", "T", "U", "V", "W", "X",
                  "Y", "Z">>

\* A wrong lower(): the text as it is.
LowerKeepCase(s) == s

\* s.lower()
Lower(s) ==
  [i \in 1..Len(s) |->
     IF \E k \in 1..Len(UpperLetters) : UpperLetters[k] = s[i]
       THEN LowerLetters[CHOOSE k \in 1..Len(UpperLetters) :
                           UpperLetters[k] = s[i]]
       ELSE s[i]]

\* s.startswith(prefix)
StartsWith(s, prefix) ==
  Len(s) >= Len(prefix) /\ SubSeq(s, 1, Len(prefix)) = prefix

EndsWith(s, suffix) ==
  Len(s) >= Len(suffix)
  /\ SubSeq(s, Len(s) - Len(suffix) + 1, Len(s)) = suffix

\* c in s
Contains(s, c) == \E i \in 1..Len(s) : s[i] = c

\* The first position from i on whose character is not in chars (Len(s) + 1
\* when there is none): where a greedy [chars]* that starts at i ends.
RECURSIVE SkipIn(_, _, _)
SkipIn(s, i, chars) ==
  IF i <= Len(s) /\ s[i] \in chars THEN SkipIn(s, i + 1, chars) ELSE i

\* The same for the characters that are not in chars.
RECURSIVE SkipNotIn(_, _, _)
SkipNotIn(s, i, chars) ==
  IF i <= Len(s) /\ s[i] \notin chars THEN SkipNotIn(s, i + 1, chars) ELSE i

\* s.strip() and s.strip(string.whitespace)
RECURSIVE Strip(_)
Strip(s) ==
  IF Len(s) > 0 /\ s[1] \in Whitespace THEN Strip(Tail(s))
  ELSE IF Len(s) > 0 /\ s[Len(s)] \in Whitespace
    THEN Strip(SubSeq(s, 1, Len(s) - 1))
  ELSE s

(***************************************************************************)
(* The limits of the five time fields and the diagnostics of a token.      *)
(* A diagnostic is the message text: its format and its arguments.         *)
(***************************************************************************)
CronTimeFieldLimit(min_time, max_time, valid_text) ==
  [min_time |-> min_time, max_time |-> max_time, valid_text |-> valid_text]

InitCronTimeFieldLimits ==
  LET limits ==
        ("minute" :> CronTimeFieldLimit(0, 59, {}))
        @@ ("hour" :> CronTimeFieldLimit(0, 23, {}))
        @@ ("day of month" :> CronTimeFieldLimit(1, 31, {}))
        @@ ("month" :> CronTimeFieldLimit(1, 12,
                     {<<"j", "a", "n">>, <<"f", "e", "b">>,
                      <<"m", "a", "r">>, <<"a", "p", "r">>,
                      <<"m", "a", "y">>, <<"j", "u", "n">>,
                      <<"j", "u", "l">>, <<"a", "u", "g">>,
                      <<"s", "e", "p">>, <<"o", "c", "t">>,
                      <<"n", "o", "v">>, <<"d", "e", "c">>}))
        @@ ("day of week" :> CronTimeFieldLimit(0, 7,
                     {<<"s", "u", "n">>, <<"m", "o", "n">>,
                      <<"t", "u", "e">>, <<"w", "e", "d">>,
                      <<"t", "h", "u">>, <<"f", "r", "i">>,
                      <<"s", "a", "t">>}))
  IN  [f \in DOMAIN limits |-> [name |-> f] @@ limits[f]]

\* A wrong CheckLowStep: a step of 0 is let through.
CheckLowStepNegative(t, cron_time_field) ==
  IF t.step < 0
    THEN << [msg |-> "is too low for field", value |-> t.step,
             field |-> cron_time_field.name, text |-> t.text] >>
    ELSE <<>>

CheckLowStep(t, cron_time_field) ==
  IF t.step < 1
    THEN << [msg |-> "is too low for field", value |-> t.step,
             field |-> cron_time_field.name, text |-> t.text] >>
    ELSE <<>>

\* A wrong CheckHighStep: silent when the range is already reported as
\* having its start above its end.
CheckHighStepUnlessRange(t, cron_time_field) ==
  IF t.step > t.end /\ ~(t.start > t.end)
    THEN << [msg |-> "the step is greater than the last number",
             value |-> t.step, last |-> t.end,
             field |-> cron_time_field.name, text |-> t.text] >>
    ELSE <<>>

CheckHighStep(t, cron_time_field) ==
  IF t.step > t.end
    THEN << [msg |-> "the step is greater than the last number",
             value |-> t.step, last |-> t.end,
             field |-> cron_time_field.name, text |-> t.text] >>
    ELSE <<>>

\* A wrong CheckLowNum: the minimum itself is too low.
CheckLowNumAtMin(t, time_field, cron_time_field) ==
  IF time_field <= cron_time_field.min_time
    THEN << [msg |-> "is too low for field", value |-> time_field,
             field |-> cron_time_field.name, text |-> t.text] >>
    ELSE <<>>

CheckLowNum(t, time_field, cron_time_field) ==
  IF time_field < cron_time_field.min_time
    THEN << [msg |-> "is too low for field", value |-> time_field,
             field |-> cron_time_field.name, text |-> t.text] >>
    ELSE <<>>

\* A wrong CheckHighNum: the maximum itself is too high.
CheckHighNumAtMax(t, time_field, cron_time_field) ==
  IF time_field >= cron_time_field.max_time
    THEN << [msg |-> "is too high for field", value |-> time_field,
             field |-> cron_time_field.name, text |-> t.text] >>
    ELSE <<>>

CheckHighNum(t, time_field, cron_time_field) ==
  IF time_field > cron_time_field.max_time
    THEN << [msg |-> "is too high for field", value |-> time_field,
             field |-> cron_time_field.name, text |-> t.text] >>
    ELSE <<>>

\* A wrong CheckRange: a range of one number is reported too.
CheckRangeOrEqual(t, cron_time_field) ==
  IF t.start >= t.end
    THEN << [msg |-> "is greater than", value |-> t.start, last |-> t.end,
             field |-> cron_time_field.name, text |-> t.text] >>
    ELSE <<>>

CheckRange(t, cron_time_field) ==
  IF t.start > t.end
    THEN << [msg |-> "is greater than", value |-> t.start, last |-> t.end,
             field |-> cron_time_field.name, text |-> t.text] >>
    ELSE <<>>

CheckValidText(t, time_field, cron_time_field) ==
  IF Lower(time_field) \notin cron_time_field.valid_text
    THEN << [msg |-> "is not valid for field", value |-> time_field,
             field |-> cron_time_field.name, text |-> t.text] >>
    ELSE <<>>

\* cron_time.GetDiagnostics(cron_time_field), by the class of cron_time.
GetDiagnostics(t, f) ==
  CASE t.kind = "time" ->
         CheckLowNum(t, t.start, f) \o CheckHighNum(t, t.start, f)
    [] t.kind = "range" ->
         CheckRange(t, f) \o CheckLowNum(t, t.start, f)
         \o CheckHighNum(t, t.end, f)
    [] t.kind = "range_step" ->
         CheckRange(t, f) \o CheckLowNum(t, t.start, f)
         \o CheckHighNum(t, t.end, f) \o CheckLowStep(t, f)
         \o CheckHighStep(t, f) \o CheckHighNum(t, t.step, f)
    [] t.kind = "star" -> <<>>
    [] t.kind = "star_step" ->
         CheckLowStep(t, f) \o CheckHighNum(t, t.step, f)
    [] t.kind = "text" -> CheckValidText(t, t.start, f)
    [] t.kind = "text_range" ->
         CheckValidText(t, t.start, f) \o CheckValidText(t, t.end, f)
    [] t.kind = "text_range_step" ->
         CheckValidText(t, t.start, f) \o CheckValidText(t, t.end, f)
         \o CheckLowStep(t, f) \o CheckHighNum(t, t.step, f)

ChkCTStarOnly(cron_time_field) ==
  IF Len(cron_time_field) = 0 THEN TRUE
  ELSE IF Len(cron_time_field) = 1 /\ cron_time_field[1].kind = "star"
    THEN TRUE
  ELSE FALSE

(***************************************************************************)
(* class LogCounter.  A log is the record of its fields; what it prints is *)
(* appended to the output.  A queued message '%s: %s' % (msg_kind, text)   *)
(* is the pair of its two parts.                                           *)
(***************************************************************************)
\* The names of the message kinds, as Python strings.
BARE_PERCENT ==
  <<"B", "A", "R", "E", "_", "P", "E", "R", "C", "E", "N", "T">>

CHKCRONTAB_ERROR ==
  <<"C", "H", "K", "C", "R", "O", "N", "T", "A", "B", "_", "E", "R", "R",
    "O", "R">>

FIELD_PARSE_ERROR ==
  <<"F", "I", "E", "L", "D", "_", "P", "A", "R", "S", "E", "_", "E", "R",
    "R", "O", "R">>

FIELD_VALUE_ERROR ==
  <<"F", "I", "E", "L", "D", "_", "V", "A", "L", "U", "E", "_", "E", "R",
    "R", "O", "R">>

INVALID_AT ==
  <<"I", "N", "V", "A", "L", "I", "D", "_", "A", "T">>

INVALID_USER ==
  <<"I", "N", "V", "A", "L", "I", "D", "_", "U", "S", "E", "R">>

LINE_ERROR ==
  <<"L", "I", "N", "E", "_", "E", "R", "R", "O", "R">>

QUOTE_VALUES ==
  <<"Q", "U", "O", "T", "E", "_", "V", "A", "L", "U", "E", "S">>

SHELL_VAR ==
  <<"S", "H", "E", "L", "L", "_", "V", "A", "R">>

USER_NOT_FOUND ==
  <<"U", "S", "E", "R", "_", "N", "O", "T", "_", "F", "O", "U", "N", "D">>

HOURS_NOT_MINUTES ==
  <<"H", "O", "U", "R", "S", "_", "N", "O", "T", "_", "M", "I", "N", "U",
    "T", "E", "S">>

\* LogCounter._msg_kinds
MsgKinds ==
  {BARE_PERCENT, CHKCRONTAB_ERROR, FIELD_PARSE_ERROR, FIELD_VALUE_ERROR,
   INVALID_AT, INVALID_USER, LINE_ERROR, QUOTE_VALUES, SHELL_VAR,
   USER_NOT_FOUND, HOURS_NOT_MINUTES}

\* LogCounter()
NewLogCounter ==
  [error_count |-> 0, warn_count |-> 0, ignored |-> {},
   line_errors |-> <<>>, line_warns |-> <<>>]

\* A wrong Ignore: the category takes the place of those suppressed before.
IgnoreOnly(l, msg_kind) == [l EXCEPT !.ignored = {msg_kind}]

Ignore(l, msg_kind) == [l EXCEPT !.ignored = @ \cup {msg_kind}]

\* A wrong Unignore: every category is counted again.
UnignoreAll(l, msg_kind) == [l EXCEPT !.ignored = {}]

Unignore(l, msg_kind) == [l EXCEPT !.ignored = @ \ {msg_kind}]

ValidMsgKind(msg_kind) == msg_kind \in MsgKinds

\* log.<msg_kind>, for an attribute that is not defined: __getattr__.
GetAttrRaises(msg_kind) ==
  ~(StartsWith(msg_kind, <<"M", "S", "G", "_">>)
    /\ SubSeq(msg_kind, 5, Len(msg_kind)) \in MsgKinds)

GetAttr(msg_kind) == SubSeq(msg_kind, 5, Len(msg_kind))

\* A wrong Warn: the message is queued for the line as well.
WarnQueued(l, message) ==
  [l EXCEPT !.warn_count = @ + 1,
            !.line_warns = Append(@, <<"", message>>)]

Warn(l, message) == [l EXCEPT !.warn_count = @ + 1]

\* A wrong LineWarn: the warning is counted even when it is not queued.
LineWarnCountsAlways(l, msg_kind, line_warn) ==
  IF msg_kind \notin l.ignored
    THEN [l EXCEPT !.line_warns = Append(@, <<msg_kind, line_warn>>),
                   !.warn_count = @ + 1]
    ELSE [l EXCEPT !.warn_count = @ + 1]

LineWarn(l, msg_kind, line_warn) ==
  IF msg_kind \notin l.ignored
    THEN [l EXCEPT !.line_warns = Append(@, <<msg_kind, line_warn>>),
                   !.warn_count = @ + 1]
    ELSE l

Error(l, message) == [l EXCEPT !.error_count = @ + 1]

LineError(l, msg_kind, line_error) ==
  IF msg_kind \notin l.ignored
    THEN [l EXCEPT !.line_errors = Append(@, <<msg_kind, line_error>>),
                   !.error_count = @ + 1]
    ELSE l

\* What Warn and Error print.
WarnOutput(message) == << [tag |-> "W:", message |-> message] >>

ErrorOutput(message) == << [tag |-> "E:", message |-> message] >>

\* A wrong Emit: the queued warnings are printed before the queued errors.
EmitOutputWarningsFirst(l, line_no, line) ==
  IF Len(l.line_errors) > 0 \/ Len(l.line_warns) > 0
    THEN LET spacer == Len(StrOfInt(line_no))
         IN  << [tag |-> IF Len(l.line_errors) > 0 THEN "E:" ELSE "W:",
                 line_no |-> line_no, line |-> line] >>
             \o [i \in 1..Len(l.line_warns) |->
                   [tag |-> "w:", spacer |-> spacer,
                    message |-> l.line_warns[i]]]
             \o [i \in 1..Len(l.line_errors) |->
                   [tag |-> "e:", spacer |-> spacer,
                    message |-> l.line_errors[i]]]
    ELSE <<>>

\* What Emit prints: the line with its number, then the queued errors, then
\* the queued warnings, indented by the width of the line number.
EmitOutput(l, line_no, line) ==
  IF Len(l.line_errors) > 0 \/ Len(l.line_warns) > 0
    THEN LET spacer == Len(StrOfInt(line_no))
         IN  << [tag |-> IF Len(l.line_errors) > 0 THEN "E:" ELSE "W:",
                 line_no |-> line_no, line |-> line] >>
             \o [i \in 1..Len(l.line_errors) |->
                   [tag |-> "e:", spacer |-> spacer,
                    message |-> l.line_errors[i]]]
             \o [i \in 1..Len(l.line_warns) |->
                   [tag |-> "w:", spacer |-> spacer,
                    message |-> l.line_warns[i]]]
    ELSE <<>>

\* A wrong Emit: the counts start again with the queues.
EmitResetsCounts(l, line_no, line) ==
  IF Len(l.line_errors) > 0 \/ Len(l.line_warns) > 0
    THEN [l EXCEPT !.line_errors = <<>>, !.line_warns = <<>>,
                   !.error_count = 0, !.warn_count = 0]
    ELSE l

\* The log after Emit.
Emit(l, line_no, line) ==
  IF Len(l.line_errors) > 0 \/ Len(l.line_warns) > 0
    THEN [l EXCEPT !.line_errors = <<>>, !.line_warns = <<>>]
    ELSE l

\* A wrong Summary: warnings alone give 0.
SummaryErrorsOnly(l) ==
  IF l.error_count > 0 THEN 2
  ELSE 0

\* A wrong Summary: the warnings are tested first.
SummaryWarningsFirst(l) ==
  IF l.warn_count > 0 THEN 1
  ELSE IF l.error_count > 0 THEN 2
  ELSE 0

\* What Summary returns.
Summary(l) ==
  IF l.error_count > 0 THEN 2
  ELSE IF l.warn_count > 0 THEN 1
  ELSE 0

\* What Summary prints.
SummaryOutput(l) ==
  IF l.error_count > 0
    THEN << [tag |-> "E:", errors |-> l.error_count,
             warnings |-> l.warn_count],
            [tag |-> "more_info"] >>
  ELSE IF l.warn_count > 0
    THEN << [tag |-> "W:", warnings |-> l.warn_count],
            [tag |-> "more_info"] >>
  ELSE <<>>

(***************************************************************************)
(* The classes of lines.  ValidateAndLog(log) is modelled by the sequence  *)
(* of calls it makes on log, in order; a call that raises ends it.         *)
(***************************************************************************)
Raise(exc) == << [op |-> "raise", exc |-> exc] >>

\* log.LineError(log.<attr>, message)
LineErrorCall(attr, message) ==
  IF GetAttrRaises(attr) THEN Raise("LogMsgKindNotFound")
  ELSE << [op |-> "LineError", msg_kind |-> GetAttr(attr),
           message |-> message] >>

\* log.LineWarn(log.<attr>, message)
LineWarnCall(attr, message) ==
  IF GetAttrRaises(attr) THEN Raise("LogMsgKindNotFound")
  ELSE << [op |-> "LineWarn", msg_kind |-> GetAttr(attr),
           message |-> message] >>

MSG(kind) == <<"M", "S", "G", "_">> \o kind

CronLineEmpty == [class |-> "CronLineEmpty"]

CronLineComment == [class |-> "CronLineComment"]

CronLineUnknown == [class |-> "CronLineUnknown"]

CronLineChkCrontabCmd(command, msg_kind) ==
  [class |-> "CronLineChkCrontabCmd", command |-> command,
   msg_kind |-> msg_kind]

CronLineAssignment(variable) ==
  [class |-> "CronLineAssignment", variable |-> variable]

CronLineAt(time_field, user, command) ==
  [class |-> "CronLineAt", time_field |-> time_field, user |-> user,
   command |-> command]

CronLineTime(time_field, user, command) ==
  [class |-> "CronLineTime", time_field |-> time_field, user |-> user,
   command |-> command]

DisableMsg == <<"d", "i", "s", "a", "b", "l", "e", "-", "m", "s", "g">>

EnableMsg == <<"e", "n", "a", "b", "l", "e", "-", "m", "s", "g">>

\* A wrong CronLineChkCrontabCmd.ValidateAndLog: it returns after the error
\* about the message kind.
ChkCrontabCmdCallsFirstFault(cl) ==
  IF ~ValidMsgKind(cl.msg_kind)
    THEN LineErrorCall(MSG(CHKCRONTAB_ERROR),
                       [msg |-> "is an unknown error message",
                        value |-> cl.msg_kind])
  ELSE IF cl.command = DisableMsg
    THEN << [op |-> "Ignore", msg_kind |-> cl.msg_kind] >>
  ELSE IF cl.command = EnableMsg
    THEN << [op |-> "Unignore", msg_kind |-> cl.msg_kind] >>
  ELSE LineErrorCall(MSG(CHKCRONTAB_ERROR),
                     [msg |-> "Invalid chkcrontab command"])

\* CronLineChkCrontabCmd.ValidateAndLog
ChkCrontabCmdCalls(cl) ==
  (IF ~ValidMsgKind(cl.msg_kind)
     THEN LineErrorCall(MSG(CHKCRONTAB_ERROR),
                        [msg |-> "is an unknown error message",
                         value |-> cl.msg_kind])
     ELSE <<>>)
  \o (IF cl.command = DisableMsg
        THEN << [op |-> "Ignore", msg_kind |-> cl.msg_kind] >>
      ELSE IF cl.command = EnableMsg
        THEN << [op |-> "Unignore", msg_kind |-> cl.msg_kind] >>
      ELSE LineErrorCall(MSG(CHKCRONTAB_ERROR),
                         [msg |-> "Invalid chkcrontab command"]))

\* A wrong CronLineAssignment.ValidateAndLog: only a value that starts with
\* '$' is warned about.
AssignmentCallsLeadingDollar(cl) ==
  (IF Len(Strip(cl.variable)) = 0
     THEN LineErrorCall(MSG(QUOTE_VALUES),
                        [msg |-> "Variable assignments must contain non-whitespace characters"])
     ELSE <<>>)
  \o (IF StartsWith(cl.variable, <<"$">>)
        THEN LineWarnCall(MSG(SHELL_VAR),
                          [msg |-> "$VAR is not expanded"])
        ELSE <<>>)

\* CronLineAssignment.ValidateAndLog
AssignmentCalls(cl) ==
  (IF Len(Strip(cl.variable)) = 0
     THEN LineErrorCall(MSG(QUOTE_VALUES),
                        [msg |-> "Variable assignments must contain non-whitespace characters"])
     ELSE <<>>)
  \o (IF Contains(cl.variable, "$")
        THEN LineWarnCall(MSG(SHELL_VAR),
                          [msg |-> "$VAR is not expanded"])
        ELSE <<>>)

\* CronLineAt._CheckTimeField
ValidAtPeriods ==
  {<<"r", "e", "b", "o", "o", "t">>,
   <<"y", "e", "a", "r", "l", "y">>,
   <<"a", "n", "n", "u", "a", "l", "l", "y">>,
   <<"m", "o", "n", "t", "h", "l", "y">>,
   <<"w", "e", "e", "k", "l", "y">>,
   <<"d", "a", "i", "l", "y">>,
   <<"m", "i", "d", "n", "i", "g", "h", "t">>,
   <<"h", "o", "u", "r", "l", "y">>}

\* A wrong CronLineAt._CheckTimeField: an invalid period ends the checks of
\* the line.
AtTimeFieldCallsThenReturn(cl) ==
  IF cl.time_field \notin ValidAtPeriods
    THEN LineErrorCall(MSG(INVALID_AT),
                       [msg |-> "Invalid @ directive", value |-> cl.time_field])
         \o << [op |-> "return"] >>
    ELSE <<>>

AtTimeFieldCalls(cl) ==
  IF cl.time_field \notin ValidAtPeriods
    THEN LineErrorCall(MSG(INVALID_AT),
                       [msg |-> "Invalid @ directive", value |-> cl.time_field])
    ELSE <<>>

\* CronLineTime._CheckTimeField
CronTimeFieldNames ==
  <<"minute", "hour", "day of month", "month", "day of week">>

RECURSIVE Flatten(_)
Flatten(seqs) ==
  IF Len(seqs) = 0 THEN <<>> ELSE Head(seqs) \o Flatten(Tail(seqs))

\* A wrong loop body: the tokens of a field that failed to parse are not
\* looked at.
FieldCallsParsedOnly(cl, field) ==
  LET rs == RunState(InitCronFSM, cl.time_field[field])
      parsed_field == rs.data_out
  IN  IF rs.pc = "raised" THEN Raise("ValueError")
      ELSE IF "parser_error" \in DOMAIN parsed_field
        THEN LineErrorCall(MSG(FIELD_PARSE_ERROR),
                           [msg |-> "Failed to fully parse field",
                            field |-> field,
                            error |-> parsed_field.parser_error])
      ELSE Flatten([i \in 1..Len(parsed_field.cron_times) |->
             LET diagnostics ==
                   GetDiagnostics(parsed_field.cron_times[i],
                                  InitCronTimeFieldLimits[field])
             IN  Flatten([k \in 1..Len(diagnostics) |->
                   LineErrorCall(MSG(FIELD_VALUE_ERROR),
                                 diagnostics[k])])])

\* The body of the loop over the five fields, for one field.
FieldCalls(cl, field) ==
  LET rs == RunState(InitCronFSM, cl.time_field[field])
      parsed_field == rs.data_out
  IN  IF rs.pc = "raised" THEN Raise("ValueError")
      ELSE (IF "parser_error" \in DOMAIN parsed_field
              THEN LineErrorCall(MSG(FIELD_PARSE_ERROR),
                                 [msg |-> "Failed to fully parse field",
                                  field |-> field,
                                  error |-> parsed_field.parser_error])
              ELSE <<>>)
           \o Flatten([i \in 1..Len(parsed_field.cron_times) |->
                LET diagnostics ==
                      GetDiagnostics(parsed_field.cron_times[i],
                                     InitCronTimeFieldLimits[field])
                IN  Flatten([k \in 1..Len(diagnostics) |->
                      LineErrorCall(MSG(FIELD_VALUE_ERROR),
                                    diagnostics[k])])])

TimeFieldCalls(cl) ==
  LET cron_times(field) == Run(cl.time_field[field]).cron_times
  IN  Flatten([i \in 1..Len(CronTimeFieldNames) |->
                 FieldCalls(cl, CronTimeFieldNames[i])])
      \o (IF ChkCTStarOnly(cron_times("minute"))
             /\ ~ChkCTStarOnly(cron_times("hour"))
            THEN LineWarnCall(MSG(HOURS_NOT_MINUTES),
                              [msg |-> "Cron will run this every minute for the hours set"])
            ELSE <<>>)

\* The users pwd.getpwnam finds: the host's password database.
PasswdUsers == {<<"r", "o", "o", "t">>}

\* The backquote character, which a string of this notation cannot hold.
Backquote == "<backquote>"

\* The character of code 0, for which pwd.getpwnam raises ValueError
\* ('embedded null byte') in place of looking the name up.
Nul == "<nul>"

\* The class of characters re.search looks for in user: whitespace and the
\* punctuation ! " # $ % & ' ( ) * + , / : ; < = > ? @ [ \ ] ^ backquote
\* { | } ~
InvalidUserChars ==
  Whitespace
  \cup {"!", "\"", "#", "$", "%", "&", "'", "(", ")", "*", "+", ",", "/",
        ":", ";", "<", "=", ">", "?", "@", "[", "\\", "]", "^", Backquote, "{",
        "|", "}", "~"}

UserNameMax == 31

\* Wrong user checks: a whitelisted user skips the checks of the user, not
\* those of the command.
UserCallsNoReturn(cl, whitelist) ==
  IF cl.user \in whitelist THEN <<>>
  ELSE IF Len(cl.user) > UserNameMax
    THEN LineErrorCall(MSG(INVALID_USER),
                       [msg |-> "Username too long", value |-> cl.user])
  ELSE IF StartsWith(cl.user, <<"-">>)
    THEN LineErrorCall(MSG(INVALID_USER),
                       [msg |-> "Invalid username", value |-> cl.user])
  ELSE IF \E i \in 1..Len(cl.user) : cl.user[i] \in InvalidUserChars
    THEN LineErrorCall(MSG(INVALID_USER),
                       [msg |-> "Invalid username", value |-> cl.user])
  ELSE IF Contains(cl.user, Nul) THEN Raise("ValueError")
  ELSE IF cl.user \notin PasswdUsers
    THEN LineWarnCall(MSG(USER_NOT_FOUND),
                      [msg |-> "User not found", value |-> cl.user])
  ELSE <<>>

\* Wrong user checks: a name of UserNameMax characters is too long.
UserCallsAtMax(cl, whitelist) ==
  IF cl.user \in whitelist THEN << [op |-> "return"] >>
  ELSE IF Len(cl.user) >= UserNameMax
    THEN LineErrorCall(MSG(INVALID_USER),
                       [msg |-> "Username too long", value |-> cl.user])
  ELSE IF StartsWith(cl.user, <<"-">>)
    THEN LineErrorCall(MSG(INVALID_USER),
                       [msg |-> "Invalid username", value |-> cl.user])
  ELSE IF \E i \in 1..Len(cl.user) : cl.user[i] \in InvalidUserChars
    THEN LineErrorCall(MSG(INVALID_USER),
                       [msg |-> "Invalid username", value |-> cl.user])
  ELSE IF Contains(cl.user, Nul) THEN Raise("ValueError")
  ELSE IF cl.user \notin PasswdUsers
    THEN LineWarnCall(MSG(USER_NOT_FOUND),
                      [msg |-> "User not found", value |-> cl.user])
  ELSE <<>>

\* The user checks of CronLineTimeAction.ValidateAndLog; "return" ends
\* ValidateAndLog.
UserCalls(cl, whitelist) ==
  IF cl.user \in whitelist THEN << [op |-> "return"] >>
  ELSE IF Len(cl.user) > UserNameMax
    THEN LineErrorCall(MSG(INVALID_USER),
                       [msg |-> "Username too long", value |-> cl.user])
  ELSE IF StartsWith(cl.user, <<"-">>)
    THEN LineErrorCall(MSG(INVALID_USER),
                       [msg |-> "Invalid username", value |-> cl.user])
  ELSE IF \E i \in 1..Len(cl.user) : cl.user[i] \in InvalidUserChars
    THEN LineErrorCall(MSG(INVALID_USER),
                       [msg |-> "Invalid username", value |-> cl.user])
  ELSE IF Contains(cl.user, Nul) THEN Raise("ValueError")
  ELSE IF cl.user \notin PasswdUsers
    THEN LineWarnCall(MSG(USER_NOT_FOUND),
                      [msg |-> "User not found", value |-> cl.user])
  ELSE <<>>

\* A wrong command check: an escaped '%' is warned about as well.
CommandCallsAnyPercent(cl) ==
  IF Contains(cl.command, "%")
    THEN LineWarnCall(MSG(BARE_PERCENT),
                      [msg |-> "A bare % is a line break in crontab"])
    ELSE <<>>

\* The command checks of CronLineTimeAction.ValidateAndLog.
CommandCalls(cl) ==
  IF \/ StartsWith(cl.command, <<"%">>)
     \/ \E i \in 2..Len(cl.command) :
          cl.command[i] = "%" /\ cl.command[i - 1] # "\\"
    THEN LineWarnCall(MSG(BARE_PERCENT),
                      [msg |-> "A bare % is a line break in crontab"])
    ELSE <<>>

\* The calls up to and without the first "return", or up to and with the
\* first "raise": an exception leaves the method as a return does.
RECURSIVE UntilReturn(_)
UntilReturn(calls) ==
  IF Len(calls) = 0 \/ Head(calls).op = "return" THEN <<>>
  ELSE IF Head(calls).op = "raise" THEN <<Head(calls)>>
  ELSE <<Head(calls)>> \o UntilReturn(Tail(calls))

\* CronLineTimeAction.ValidateAndLog
TimeActionCalls(cl, whitelist) ==
  UntilReturn((IF cl.class = "CronLineAt" THEN AtTimeFieldCalls(cl)
               ELSE TimeFieldCalls(cl))
              \o UserCalls(cl, whitelist)
              \o CommandCalls(cl))

\* CronLineUnknown.ValidateAndLog
UnknownCalls(cl) ==
  LineErrorCall(MSG(LINE_ERROR), [msg |-> "Failed to parse line"])

\* cron_line.ValidateAndLog(log), by the class of cron_line.
ValidateAndLog(cl, whitelist) ==
  CASE cl.class = "CronLineEmpty" -> <<>>
    [] cl.class = "CronLineComment" -> <<>>
    [] cl.class = "CronLineChkCrontabCmd" -> ChkCrontabCmdCalls(cl)
    [] cl.class = "CronLineAssignment" -> AssignmentCalls(cl)
    [] cl.class \in {"CronLineAt", "CronLineTime"} ->
         TimeActionCalls(cl, whitelist)
    [] cl.class = "CronLineUnknown" -> UnknownCalls(cl)

(***************************************************************************)
(* CronLineFactory.ParseLine.  A regular expression is modelled by where   *)
(* its greedy parts end: the classes of characters that follow each other  *)
(* in the four patterns are disjoint, so a match is found without          *)
(* backtracking or not at all.                                             *)
(***************************************************************************)
NoMatch == [matched |-> FALSE]

Match(groups) == [matched |-> TRUE, groups |-> groups]

ChkCrontabWord == <<"c", "h", "k", "c", "r", "o", "n", "t", "a", "b", ":">>

\* chkcrontab_cmd.match(line): '##*\s*chkcrontab:\s*(.*)=(.*)'
ChkCrontabCmdMatch(line) ==
  LET i1 == SkipIn(line, 2, {"#"})
      i2 == SkipIn(line, i1, Whitespace)
      i3 == i2 + Len(ChkCrontabWord)
      i4 == SkipIn(line, i3, Whitespace)
      eqs == {e \in i4..Len(line) : line[e] = "="}
  IN  IF /\ Len(line) > 0 /\ line[1] = "#"
         /\ i3 - 1 <= Len(line)
         /\ SubSeq(line, i2, i3 - 1) = ChkCrontabWord
         /\ eqs # {}
        THEN LET e == CHOOSE x \in eqs : \A y \in eqs : y <= x
             IN  Match(<<SubSeq(line, i4, e - 1), SubSeq(line, e + 1, Len(line))>>)
        ELSE NoMatch

IdentStartChars == AsciiLetters \cup {"_"}

IdentChars == AsciiLetters \cup DigitSet \cup {"_"}

\* assignment_line_re.match(line): '[a-zA-Z_][a-zA-Z0-9_]*\s*=(.*)'
AssignmentMatch(line) ==
  LET i1 == SkipIn(line, 2, IdentChars)
      i2 == SkipIn(line, i1, Whitespace)
  IN  IF /\ Len(line) > 0 /\ line[1] \in IdentStartChars
         /\ i2 <= Len(line) /\ line[i2] = "="
        THEN Match(<<SubSeq(line, i2 + 1, Len(line))>>)
        ELSE NoMatch

\* at_line_re.match(line): '@(\S+)\s+(\S+)\s+(.*)'
AtMatch(line) ==
  LET i1 == SkipNotIn(line, 2, Whitespace)
      i2 == SkipIn(line, i1, Whitespace)
      i3 == SkipNotIn(line, i2, Whitespace)
      i4 == SkipIn(line, i3, Whitespace)
  IN  IF /\ Len(line) > 0 /\ line[1] = "@"
         /\ i1 > 2 /\ i2 > i1 /\ i3 > i2 /\ i4 > i3
        THEN Match(<<SubSeq(line, 2, i1 - 1), SubSeq(line, i2, i3 - 1),
                     SubSeq(line, i4, Len(line))>>)
        ELSE NoMatch

\* cron_time_field_re: '[\*0-9a-zA-Z,/-]+'
CronTimeFieldChars == {"*", ",", "/", "-"} \cup DigitSet \cup AsciiLetters

\* The ends of n times '(cron_time_field_re)\s+' from position i on: the
\* positions where the fields and the whitespace after them end, or <<>>
\* when there is no match.
RECURSIVE TimeFieldEnds(_, _, _)
TimeFieldEnds(line, i, n) ==
  IF n = 0 THEN <<i>>
  ELSE LET e == SkipIn(line, i, CronTimeFieldChars)
           w == SkipIn(line, e, Whitespace)
           rest == TimeFieldEnds(line, w, n - 1)
       IN  IF e > i /\ w > e /\ Len(rest) > 0 THEN <<i, e>> \o rest
           ELSE <<>>

\* time_field_job_line_re.match(line):
\* '^\s*(f)\s+(f)\s+(f)\s+(f)\s+(f)\s+(\S+)\s+(.*)', f cron_time_field_re
TimeFieldJobLineMatch(line) ==
  LET i0 == SkipIn(line, 1, Whitespace)
      ends == TimeFieldEnds(line, i0, Len(CronTimeFieldNames))
      u == IF Len(ends) > 0 THEN ends[Len(ends)] ELSE 1
      u1 == SkipNotIn(line, u, Whitespace)
      u2 == SkipIn(line, u1, Whitespace)
  IN  IF Len(ends) > 0 /\ u1 > u /\ u2 > u1
        THEN Match([k \in 1..Len(CronTimeFieldNames) |->
                      SubSeq(line, ends[2 * k - 1], ends[2 * k] - 1)]
                   \o <<SubSeq(line, u, u1 - 1), SubSeq(line, u2, Len(line))>>)
        ELSE NoMatch

\* A wrong ParseLine: a '#' line that is not a directive goes on to the
\* rules after it.
ParseLineSharpFallsThrough(line) ==
  LET cmd == ChkCrontabCmdMatch(line)
      assignment == AssignmentMatch(line)
      at == AtMatch(line)
      job == TimeFieldJobLineMatch(line)
  IN  IF Len(line) = 0 THEN CronLineEmpty
      ELSE IF StartsWith(line, <<"#">>) /\ cmd.matched
        THEN CronLineChkCrontabCmd(cmd.groups[1], cmd.groups[2])
      ELSE IF assignment.matched
        THEN CronLineAssignment(assignment.groups[1])
      ELSE IF at.matched
        THEN CronLineAt(at.groups[1], at.groups[2], at.groups[3])
      ELSE IF job.matched
        THEN CronLineTime([f \in {CronTimeFieldNames[k] :
                                    k \in 1..Len(CronTimeFieldNames)} |->
                             job.groups[CHOOSE k \in 1..Len(CronTimeFieldNames) :
                                          CronTimeFieldNames[k] = f]],
                          job.groups[6], job.groups[7])
      ELSE CronLineUnknown

ParseLine(line) ==
  LET cmd == ChkCrontabCmdMatch(line)
      assignment == AssignmentMatch(line)
      at == AtMatch(line)
      job == TimeFieldJobLineMatch(line)
  IN  IF Len(line) = 0 THEN CronLineEmpty
      ELSE IF StartsWith(line, <<"#">>)
        THEN IF cmd.matched
               THEN CronLineChkCrontabCmd(cmd.groups[1], cmd.groups[2])
               ELSE CronLineComment
      ELSE IF assignment.matched
        THEN CronLineAssignment(assignment.groups[1])
      ELSE IF at.matched
        THEN CronLineAt(at.groups[1], at.groups[2], at.groups[3])
      ELSE IF job.matched
        THEN CronLineTime([f \in {CronTimeFieldNames[k] :
                                    k \in 1..Len(CronTimeFieldNames)} |->
                             job.groups[CHOOSE k \in 1..Len(CronTimeFieldNames) :
                                          CronTimeFieldNames[k] = f]],
                          job.groups[6], job.groups[7])
      ELSE CronLineUnknown

(***************************************************************************)
(* check_crontab.                                                          *)
(***************************************************************************)
\* USER_WHITELIST as the module defines it.
InitialUserWhitelist ==
  {<<"p", "o", "s", "t", "g", "r", "e", "s">>,
   <<"b", "u", "i", "l", "d", "b", "o", "t">>}

\* re.search('[^A-Za-z0-9_-]', name) finds nothing in these characters.
FileNameChars == AsciiLetters \cup DigitSet \cup {"_", "-"}

\* '$' of a pattern: the end of the string or just before a last newline.
AtDollar(s, suffix) ==
  EndsWith(s, suffix) \/ EndsWith(s, suffix \o <<"\n">>)

CronD == <<"c", "r", "o", "n", ".", "d">>

\* Whether some pattern of FILE_RE_WHITELIST is found in name:
\* '\.in$', '\.cron$', '\.disabled$', '^(\S+\.)?cron\.d$'
FILE_RE_WHITELIST(name) ==
  \/ AtDollar(name, <<".", "i", "n">>)
  \/ AtDollar(name, <<".", "c", "r", "o", "n">>)
  \/ AtDollar(name,
              <<".", "d", "i", "s", "a", "b", "l", "e", "d">>)
  \/ name \in {CronD, CronD \o <<"\n">>}
  \/ \E n \in 1..Len(name) :
       /\ \A i \in 1..n : name[i] \notin Whitespace
       /\ SubSeq(name, n + 1, Len(name))
            \in {<<".">> \o CronD, <<".">> \o CronD \o <<"\n">>}

\* The file name check of check_crontab: whether log.Warn is called.
FileNameWarns(name) ==
  /\ \E i \in 1..Len(name) : name[i] \notin FileNameChars
  /\ ~FILE_RE_WHITELIST(name)

FileNameMessage == "Cron will not process this file"

\* The crontab files of the model: a path that does not exist, and paths
\* that exist with a plain name, a name cron skips and a name that is
\* whitelisted.
CrontabFiles ==
  {[exists |-> FALSE, basename |-> <<"c", "r", "o", "n", "t", "a", "b">>],
   [exists |-> TRUE, basename |-> <<"c", "r", "o", "n", "t", "a", "b">>],
   [exists |-> TRUE, basename |-> <<"a", ".", "b">>],
   [exists |-> TRUE, basename |-> <<"a", ".", "c", "r", "o", "n">>]}

\* None and an empty collection are both false in the test of line 1068:
\* they are modelled by {}.
WhitelistedUsers == {{}, {<<"n", "o", "u", "s", "e", "r">>}}

\* The texts of the lines a file is made of.
LineTexts ==
  {<<" ", " ">>,
   <<"#", " ", "c">>,
   <<"#", " ", "c", "h", "k", "c", "r", "o", "n", "t", "a", "b", ":", " ",
     "d", "i", "s", "a", "b", "l", "e", "-", "m", "s", "g", "=", "U", "S",
     "E", "R", "_", "N", "O", "T", "_", "F", "O", "U", "N", "D">>,
   <<"#", " ", "c", "h", "k", "c", "r", "o", "n", "t", "a", "b", ":", " ",
     "e", "n", "a", "b", "l", "e", "-", "m", "s", "g", "=", "U", "S", "E",
     "R", "_", "N", "O", "T", "_", "F", "O", "U", "N", "D">>,
   <<"#", "c", "h", "k", "c", "r", "o", "n", "t", "a", "b", ":", "d", "i",
     "s", "a", "b", "l", "e", "-", "m", "s", "g", "=", "L", "I", "N", "E",
     "_", "E", "R", "R", "O", "R">>,
   <<"#", " ", "c", "h", "k", "c", "r", "o", "n", "t", "a", "b", ":", " ",
     "d", "i", "s", "a", "b", "l", "e", "-", "m", "s", "g", "=", "l", "i",
     "n", "e", "_", "e", "r", "r", "o", "r">>,
   <<"#", " ", "c", "h", "k", "c", "r", "o", "n", "t", "a", "b", ":", " ",
     "o", "n", "=", "N", "O">>,
   <<"#", " ", "c", "h", "k", "c", "r", "o", "n", "t", "a", "b", ":", " ",
     "o", "n", "=", "L", "I", "N", "E", "_", "E", "R", "R", "O", "R">>,
   <<"A", "=", "$", "B">>,
   <<"A", "=", " ">>,
   <<"b", "a", "d">>,
   <<"6", "0", " ", "*", " ", "*", " ", "*", " ", "*", " ", "n", "o", "u",
     "s", "e", "r", " ", "t", "r", "u", "e">>,
   <<"*", " ", "1", " ", "*", " ", "*", " ", "*", " ", "r", "o", "o", "t",
     " ", "a", "%", "b">>,
   <<"6", "0", " ", "*", " ", "*", " ", "*", " ", "*", " ", "a", Nul, "b",
     " ", "t", "r", "u", "e">>,
   <<"6", "0", " ", "*", " ", "*", " ", "*", " ", "*", " ", "r", "o", "o",
     "t", " ", "t", "r", "u", "e">>,
   <<"6", "0", ",", "/", " ", "2", "4", " ", "*", " ", "*", " ", "*", " ",
     "r", "o", "o", "t", " ", "t", "r", "u", "e">>,
   <<"@", "n", "e", "v", "e", "r", " ", "p", "o", "s", "t", "g", "r", "e",
     "s", " ", "x">>}

\* A line as the file iterator yields it.
Lines == {t \o <<"\n">> : t \in LineTexts}

Init ==
  /\ crontab_file \in CrontabFiles
  /\ whitelisted_users \in WhitelistedUsers
  /\ USER_WHITELIST = InitialUserWhitelist
  /\ log = NewLogCounter
  /\ output = <<>>
  /\ pc = "call"
  /\ file = <<>>
  /\ cur_line_no = 0
  /\ cur_line = <<>>
  /\ pending = <<>>
  /\ validated = <<>>
  /\ rc = None
  /\ ctf_pc = "none"
  /\ field_name = None
  /\ field_data = <<>>
  /\ ctf_parsed = EmptyDict
  /\ cron_times_left = <<>>
  /\ field_action = Unbound
  /\ last_diagnostics = <<>>
  /\ actual_field_errors = <<>>
  /\ the_fsm = None
  /\ parses = <<>>
  /\ call_no = 1
  /\ data_in = <<>>
  /\ data_out_init = InitCronFSM.data_out_init
  /\ fsm_pc = "none"
  /\ idx = 1
  /\ cur_state = "start"
  /\ parsed = <<>>
  /\ data_out = EmptyDict
  /\ steps = 0
  /\ run_no = 0
  /\ prev_out = None

\* check_crontab is called: lines 1063-1082.
CheckCrontab ==
  /\ pc = "call"
  /\ IF ~crontab_file.exists
       THEN /\ rc' = Summary(log)
            /\ output' = output \o SummaryOutput(log)
            /\ pc' = "done"
            /\ UNCHANGED <<USER_WHITELIST, log>>
       ELSE /\ USER_WHITELIST' =
                 IF whitelisted_users # {}
                   THEN USER_WHITELIST \cup whitelisted_users
                   ELSE USER_WHITELIST
            /\ IF FileNameWarns(crontab_file.basename)
                 THEN /\ log' = Warn(log, FileNameMessage)
                      /\ output' = output \o WarnOutput(FileNameMessage)
                 ELSE UNCHANGED <<log, output>>
            /\ pc' = "lines"
            /\ UNCHANGED rc
  /\ cur_line_no' = 0
  /\ UNCHANGED <<crontab_file, whitelisted_users, file, cur_line, pending,
                 validated>>
  /\ UNCHANGED <<fsm_vars, ctf_vars, par_vars, call_no>>

\* The file yields its next line: lines 1085-1090, up to the call of
\* ValidateAndLog.
ReadLine ==
  /\ pc = "lines"
  /\ cur_line_no < MaxLines
  /\ \E raw \in Lines :
       /\ file' = Append(file, raw)
       /\ cur_line' = Strip(raw)
       /\ pending' = ValidateAndLog(ParseLine(Strip(raw)), USER_WHITELIST)
       /\ validated' = Append(validated, pending')
  /\ cur_line_no' = cur_line_no + 1
  /\ pc' = "validate"
  /\ UNCHANGED <<crontab_file, whitelisted_users, USER_WHITELIST, log,
                 output, rc>>
  /\ UNCHANGED <<fsm_vars, ctf_vars, par_vars, call_no>>

\* ValidateAndLog makes its next call on log.
ValidateStep ==
  /\ pc = "validate"
  /\ pending # <<>>
  /\ LET c == Head(pending)
     IN  /\ log' = CASE c.op = "LineError" ->
                          LineError(log, c.msg_kind, c.message)
                     [] c.op = "LineWarn" ->
                          LineWarn(log, c.msg_kind, c.message)
                     [] c.op = "Ignore" -> Ignore(log, c.msg_kind)
                     [] c.op = "Unignore" -> Unignore(log, c.msg_kind)
                     [] c.op = "raise" -> log
         /\ pc' = IF c.op = "raise" THEN "raised" ELSE pc
  /\ pending' = Tail(pending)
  /\ UNCHANGED <<crontab_file, whitelisted_users, USER_WHITELIST, output,
                 file, cur_line_no, cur_line, validated, rc>>
  /\ UNCHANGED <<fsm_vars, ctf_vars, par_vars, call_no>>

\* ValidateAndLog has returned: log.Emit(line_no, line), line 1092.
EmitLine ==
  /\ pc = "validate"
  /\ pending = <<>>
  /\ output' = output \o EmitOutput(log, cur_line_no, cur_line)
  /\ log' = Emit(log, cur_line_no, cur_line)
  /\ pc' = "lines"
  /\ UNCHANGED <<crontab_file, whitelisted_users, USER_WHITELIST, file,
                 cur_line_no, cur_line, pending, validated, rc>>
  /\ UNCHANGED <<fsm_vars, ctf_vars, par_vars, call_no>>

\* The file has no more lines: return log.Summary(), line 1095.
EndOfFile ==
  /\ pc = "lines"
  /\ rc' = Summary(log)
  /\ output' = output \o SummaryOutput(log)
  /\ pc' = "done"
  /\ UNCHANGED <<crontab_file, whitelisted_users, USER_WHITELIST, log, file,
                 cur_line_no, cur_line, pending, validated>>
  /\ UNCHANGED <<fsm_vars, ctf_vars, par_vars, call_no>>

Next == CheckCrontab \/ ReadLine \/ ValidateStep \/ EmitLine \/ EndOfFile

Spec == Init /\ [][Next]_vars

\* check_crontab is called on a path named crontab, which exists or not.
InitFair ==
  /\ Init
  /\ crontab_file.basename = <<"c", "r", "o", "n", "t", "a", "b">>

\* check_crontab is one sequential call that nothing interrupts and whose
\* file has an end: a step that can be taken is taken.
FairSpec == InitFair /\ [][Next]_vars /\ WF_vars(Next)

(***************************************************************************)
(* A LogCounter under any sequence of calls of its methods, as a caller    *)
(* other than check_crontab may make them: any category suppressed or      *)
(* not, any messages buffered, at each call.                               *)
(***************************************************************************)
MaxOps == 3

\* The categories the calls name: one of errors, one of warnings.
LogKinds == {LINE_ERROR, SHELL_VAR}

\* The messages the calls give.
LogMessages == {<<"m">>}

\* The line number and the line Emit is called with.
EmitLineNos == {10}

EmittedText == <<"l">>

\* What the log has counted so far.
LogSize == log.error_count + log.warn_count

InitLog ==
  /\ log = NewLogCounter
  /\ output = <<>>
  /\ rc = None
  /\ pc = "log"
  /\ crontab_file = None
  /\ whitelisted_users = {}
  /\ USER_WHITELIST = InitialUserWhitelist
  /\ file = <<>>
  /\ cur_line_no = 0
  /\ cur_line = <<>>
  /\ pending = <<>>
  /\ validated = <<>>
  /\ call_no = 0
  /\ the_fsm = None
  /\ parses = <<>>
  /\ ctf_pc = "none"
  /\ field_name = None
  /\ field_data = <<>>
  /\ ctf_parsed = EmptyDict
  /\ cron_times_left = <<>>
  /\ field_action = Unbound
  /\ last_diagnostics = <<>>
  /\ actual_field_errors = <<>>
  /\ data_in = <<>>
  /\ data_out_init = InitCronFSM.data_out_init
  /\ fsm_pc = "none"
  /\ idx = 1
  /\ cur_state = "start"
  /\ parsed = <<>>
  /\ data_out = EmptyDict
  /\ steps = 0
  /\ run_no = 0
  /\ prev_out = None

\* What a call on the log leaves alone.
LogFrame ==
  /\ UNCHANGED <<crontab_file, whitelisted_users, USER_WHITELIST, file,
                 cur_line_no, cur_line, pending, validated>>
  /\ UNCHANGED <<fsm_vars, ctf_vars, par_vars, call_no>>

\* log.Ignore(msg_kind)
LogIgnore(msg_kind) ==
  /\ pc \in {"log", "summarized"}
  /\ log' = Ignore(log, msg_kind)
  /\ UNCHANGED <<pc, output, rc>>
  /\ LogFrame

\* log.Unignore(msg_kind)
LogUnignore(msg_kind) ==
  /\ pc \in {"log", "summarized"}
  /\ log' = Unignore(log, msg_kind)
  /\ UNCHANGED <<pc, output, rc>>
  /\ LogFrame

\* log.Warn(message)
LogWarn(message) ==
  /\ pc \in {"log", "summarized"}
  /\ LogSize < MaxOps
  /\ output' = output \o WarnOutput(message)
  /\ log' = Warn(log, message)
  /\ UNCHANGED <<pc, rc>>
  /\ LogFrame

\* log.Error(message)
LogError(message) ==
  /\ pc \in {"log", "summarized"}
  /\ LogSize < MaxOps
  /\ output' = output \o ErrorOutput(message)
  /\ log' = Error(log, message)
  /\ UNCHANGED <<pc, rc>>
  /\ LogFrame

\* log.LineWarn(msg_kind, line_warn)
LogLineWarn(msg_kind, line_warn) ==
  /\ pc \in {"log", "summarized"}
  /\ LogSize < MaxOps
  /\ log' = LineWarn(log, msg_kind, line_warn)
  /\ UNCHANGED <<pc, output, rc>>
  /\ LogFrame

\* log.LineError(msg_kind, line_error)
LogLineError(msg_kind, line_error) ==
  /\ pc \in {"log", "summarized"}
  /\ LogSize < MaxOps
  /\ log' = LineError(log, msg_kind, line_error)
  /\ UNCHANGED <<pc, output, rc>>
  /\ LogFrame

\* log.Emit(line_no, line)
LogEmit(line_no) ==
  /\ pc \in {"log", "summarized"}
  /\ output' = output \o EmitOutput(log, line_no, EmittedText)
  /\ log' = Emit(log, line_no, EmittedText)
  /\ UNCHANGED <<pc, rc>>
  /\ LogFrame

\* log.Summary(), called once at most.
LogSummary ==
  /\ pc = "log"
  /\ pc' = "summarized"
  /\ rc' = Summary(log)
  /\ output' = output \o SummaryOutput(log)
  /\ UNCHANGED log
  /\ LogFrame

NextLog ==
  \/ \E k \in LogKinds : LogIgnore(k) \/ LogUnignore(k)
  \/ \E m \in LogMessages : LogWarn(m) \/ LogError(m)
  \/ \E k \in LogKinds, m \in LogMessages :
       LogLineWarn(k, m) \/ LogLineError(k, m)
  \/ \E n \in EmitLineNos : LogEmit(n)
  \/ LogSummary

SpecLog == InitLog /\ [][NextLog]_vars

(***************************************************************************)
(* check_crontab on short files: the lines are drawn from a larger set,    *)
(* which has the cases of every rule of the classifier and of every check  *)
(* of the validators.                                                      *)
(***************************************************************************)
MaxShortLines == 1

\* The five time fields of a schedule line.
ScheduleTimes ==
  {<<"*", " ", "*", " ", "*", " ", "*", " ", "*">>,
   <<"*", " ", "1", " ", "*", " ", "*", " ", "*">>,
   <<"1", " ", "*", " ", "*", " ", "*", " ", "*">>,
   <<"1", "-", " ", "1", " ", "*", " ", "*", " ", "*">>,
   <<"*", " ", "1", "-", " ", "*", " ", "*", " ", "*">>,
   <<"*", ",", "1", "-", " ", "1", " ", "*", " ", "*", " ", "*">>,
   <<"*", " ", "*", ",", "1", "-", " ", "*", " ", "*", " ", "*">>,
   <<"*", ",", "*", " ", "1", " ", "*", " ", "*", " ", "*">>,
   <<"*", " ", "*", ",", "*", " ", "*", " ", "*", " ", "*">>,
   <<"*", "/", "1", " ", "1", " ", "*", " ", "*", " ", "*">>,
   <<"6", "0", " ", "*", " ", "*", " ", "*", " ", "*">>}

\* The time field of an @ line.
AtPeriods ==
  {<<"@", "r", "e", "b", "o", "o", "t">>,
   <<"@", "h", "o", "u", "r", "l", "y">>,
   <<"@", "n", "e", "v", "e", "r">>,
   <<"@", "R", "e", "b", "o", "o", "t">>}

\* The users of the lines: known to the host, unknown, whitelisted, of a
\* malformed name, and of a name of UserNameMax characters and of one more.
LineUsers ==
  {<<"r", "o", "o", "t">>,
   <<"n", "o", "u", "s", "e", "r">>,
   <<"p", "o", "s", "t", "g", "r", "e", "s">>,
   <<"-", "x">>,
   <<"a", ":", "b">>,
   [i \in 1..UserNameMax |-> "u"],
   [i \in 1..(UserNameMax + 1) |-> "u"]}

\* The commands of the lines.
LineCommands ==
  {<<"t", "r", "u", "e">>,
   <<"a", "%", "b">>,
   <<"%", "a">>,
   <<"a", "\\", "%", "b">>,
   <<"\\", "%">>}

\* Blank lines, comments, directives, assignments and lines no rule takes.
OtherLineTexts ==
  {<<>>,
   <<" ", " ">>,
   <<"\t">>,
   <<"#">>,
   <<"#", " ", "c">>,
   <<"#", "=">>,
   <<"#", " ", "c", "h", "k", "c", "r", "o", "n", "t", "a", "b", ":", " ",
     "d", "i", "s", "a", "b", "l", "e", "-", "m", "s", "g", "=", "S", "H",
     "E", "L", "L", "_", "V", "A", "R">>,
   <<"#", "c", "h", "k", "c", "r", "o", "n", "t", "a", "b", ":", "x", "=">>,
   <<"#", " ", "c", "h", "k", "c", "r", "o", "n", "t", "a", "b", " ", "d",
     "i", "s", "a", "b", "l", "e", "-", "m", "s", "g", "=", "S", "H", "E",
     "L", "L", "_", "V", "A", "R">>,
   <<"A", "=", "b">>,
   <<"A", "=", "$", "B">>,
   <<"A", "=", " ">>,
   <<"A", " ", "=", "b", "$">>,
   <<"_", "a", "1", " ", "=", " ", "\"", "x", "\"">>,
   <<"A", "=">>,
   <<"A", "=", "b", " ", "*", " ", "*", " ", "*", " ", "*", " ", "r", "o",
     "o", "t", " ", "x">>,
   <<"1", "A", "=", "b">>,
   <<"A", " ", "b", "=", "c">>,
   <<"=", "x">>,
   <<"@", "r", "e", "b", "o", "o", "t", " ", "r", "o", "o", "t">>,
   <<"@", " ", "x", " ", "y">>,
   <<"@", "r", "e", "b", "o", "o", "t", " ", " ", "r", "o", "o", "t", "\t",
     "t", "r", "u", "e">>,
   <<"b", "a", "d">>,
   <<"*", " ", "*", " ", "*", " ", "*", " ", "*", " ", "r", "o", "o", "t">>,
   <<"*", " ", "*", " ", "*", " ", "*", " ", "r", "o", "o", "t", " ", "t",
     "r", "u", "e", " ", "x">>,
   <<"*", " ", " ", "*", "\t", "*", " ", "*", " ", "*", " ", " ", "r", "o",
     "o", "t", " ", " ", "t", "r", "u", "e">>,
   <<"*", " ", "*", " ", "*", " ", "*", " ", "*", " ", "@", "x", " ", "y",
     " ", "z">>}

JobLine(time, user, command) ==
  time \o <<" ">> \o user \o <<" ">> \o command

\* The texts of the lines of a short file.
ShortFileTexts ==
  {JobLine(time, user, <<"a", "%", "b">>) :
     time \in ScheduleTimes \cup AtPeriods,
     user \in {<<"r", "o", "o", "t">>, <<"n", "o", "u", "s", "e", "r">>,
               <<"p", "o", "s", "t", "g", "r", "e", "s">>}}
  \cup {JobLine(time, user, command) :
          time \in {<<"*", " ", "*", " ", "*", " ", "*", " ", "*">>,
                    <<"@", "r", "e", "b", "o", "o", "t">>,
                    <<"@", "n", "e", "v", "e", "r">>},
          user \in LineUsers, command \in LineCommands}
  \cup {JobLine(time, <<"-", "x">>, <<"a", "%", "b">>) :
          time \in {<<"1", "-", " ", "1", " ", "*", " ", "*", " ", "*">>,
                    <<"*", " ", "1", " ", "*", " ", "*", " ", "*">>}}
  \cup OtherLineTexts

ShortFileLines == {t \o <<"\n">> : t \in ShortFileTexts}

InitShort ==
  /\ crontab_file \in CrontabFiles
  /\ whitelisted_users \in WhitelistedUsers
  /\ USER_WHITELIST = InitialUserWhitelist
  /\ log = NewLogCounter
  /\ output = <<>>
  /\ pc = "call"
  /\ file = <<>>
  /\ cur_line_no = 0
  /\ cur_line = <<>>
  /\ pending = <<>>
  /\ validated = <<>>
  /\ rc = None
  /\ ctf_pc = "none"
  /\ field_name = None
  /\ field_data = <<>>
  /\ ctf_parsed = EmptyDict
  /\ cron_times_left = <<>>
  /\ field_action = Unbound
  /\ last_diagnostics = <<>>
  /\ actual_field_errors = <<>>
  /\ the_fsm = None
  /\ parses = <<>>
  /\ call_no = 1
  /\ data_in = <<>>
  /\ data_out_init = InitCronFSM.data_out_init
  /\ fsm_pc = "none"
  /\ idx = 1
  /\ cur_state = "start"
  /\ parsed = <<>>
  /\ data_out = EmptyDict
  /\ steps = 0
  /\ run_no = 0
  /\ prev_out = None

\* The short file yields its next line: lines 1085-1090, up to the call of
\* ValidateAndLog.
ReadShortLine ==
  /\ pc = "lines"
  /\ cur_line_no < MaxShortLines
  /\ \E raw \in ShortFileLines :
       /\ file' = Append(file, raw)
       /\ cur_line' = Strip(raw)
       /\ pending' = ValidateAndLog(ParseLine(Strip(raw)), USER_WHITELIST)
       /\ validated' = Append(validated, pending')
  /\ cur_line_no' = cur_line_no + 1
  /\ pc' = "validate"
  /\ UNCHANGED <<crontab_file, whitelisted_users, USER_WHITELIST, log,
                 output, rc>>
  /\ UNCHANGED <<fsm_vars, ctf_vars, par_vars, call_no>>

NextShort ==
  CheckCrontab \/ ReadShortLine \/ ValidateStep \/ EmitLine \/ EndOfFile

SpecShort == InitShort /\ [][NextShort]_vars

(***************************************************************************)
(* Several calls of check_crontab in one process, each with a file, a      *)
(* whitelist argument and a new LogCounter of its own, as the tests of     *)
(* CheckCrontabUnitTest make them one after another.  USER_WHITELIST is    *)
(* the module's global: no call sets it back.                              *)
(***************************************************************************)
MaxCalls == 2

\* The lines of the files of these calls.
CallLines ==
  {t \o <<"\n">> : t \in
     { <<"6", "0", " ", "*", " ", "*", " ", "*", " ", "*", " ", "n", "o", "u", "s", "e", "r", " ", "t", "r", "u", "e">>,
       <<"*", " ", "*", " ", "*", " ", "*", " ", "*", " ", "n", "o", "u", "s", "e", "r", " ", "t", "r", "u", "e">>,
       <<"A", "=", "$", "B">>,
       <<"#", " ", "c", "h", "k", "c", "r", "o", "n", "t", "a", "b", ":", " ", "d", "i", "s", "a", "b", "l", "e", "-", "m", "s", "g", "=", "U", "S", "E", "R", "_", "N", "O", "T", "_", "F", "O", "U", "N", "D">> }}

\* The file yields its next line: lines 1085-1090, up to the call of
\* ValidateAndLog.
ReadCallLine ==
  /\ pc = "lines"
  /\ cur_line_no < MaxShortLines
  /\ \E raw \in CallLines :
       /\ file' = Append(file, raw)
       /\ cur_line' = Strip(raw)
       /\ pending' = ValidateAndLog(ParseLine(Strip(raw)), USER_WHITELIST)
       /\ validated' = Append(validated, pending')
  /\ cur_line_no' = cur_line_no + 1
  /\ pc' = "validate"
  /\ UNCHANGED <<crontab_file, whitelisted_users, USER_WHITELIST, log,
                 output, rc>>
  /\ UNCHANGED <<fsm_vars, ctf_vars, par_vars, call_no>>

\* check_crontab has returned and is called again, with a file, a whitelist
\* argument and a new LogCounter.
CallAgain ==
  /\ pc = "done"
  /\ call_no < MaxCalls
  /\ call_no' = call_no + 1
  /\ crontab_file' \in CrontabFiles
  /\ whitelisted_users' \in WhitelistedUsers
  /\ log' = NewLogCounter
  /\ output' = <<>>
  /\ pc' = "call"
  /\ file' = <<>>
  /\ cur_line_no' = 0
  /\ cur_line' = <<>>
  /\ pending' = <<>>
  /\ validated' = <<>>
  /\ rc' = None
  /\ UNCHANGED USER_WHITELIST
  /\ UNCHANGED <<fsm_vars, ctf_vars, par_vars>>

NextCalls ==
  \/ CheckCrontab
  \/ ReadCallLine
  \/ ValidateStep
  \/ EmitLine
  \/ EndOfFile
  \/ CallAgain

SpecCalls == Init /\ [][NextCalls]_vars

(***************************************************************************)
(* CTFUnitTest.FieldTest: a field is parsed and the diagnostics of each of *)
(* its tokens are collected, in order.                                     *)
(***************************************************************************)
\* The fields the tests of CTFUnitTest give, a field with a star, a step of
\* zero and names in capitals before a parse error, and a field with two
\* numbers above every limit.
CTFTestFields ==
  {<<"0", ",", "1", ",", "3", "0", ",", "5", "9", ",", "6", "0", ",", "6",
     "1">>,
   <<"0", "-", "5", "9", ",", "0", "-", "6", "0", ",", "0", "-", "6", "1">>,
   <<"0", "-", "5", "/", "1", "0", ",", "0", "-", "1", "0", "/", "5", ",",
     "0", "-", "3", "3", "/", "6", "0", ",", "0", "-", "6", "1", "/", "6",
     "0">>,
   <<"m", "o", "n", ",", "m", "o", "n", "-", "f", "r", "i", ",", "m", "o",
     "n", "-", "f", "r", "i", "/", "3">>,
   <<"0", ",", "1", ",", "1", "2", ",", "2", "3", ",", "2", "4", ",", "2",
     "5">>,
   <<"0", "-", "1", "2", ",", "1", "-", "1", "2", ",", "1", "2", "-", "1",
     "3", ",", "1", "2", "-", "1", ",", "2", "3", "-", "2", "4", ",", "2",
     "4", "-", "3", "0", ",", "2", "5", "-", "1">>,
   <<"0", "-", "1", "2", "/", "2", ",", "1", "-", "3", "/", "0", ",", "1",
     "2", "-", "1", "3", "/", "1", "4", ",", "1", "2", "-", "1", "/", "2",
     ",", "2", "3", "-", "2", "4", "/", "2", "5", ",", "2", "4", "-", "3",
     "0", "/", "2">>,
   <<"0", ",", "0", "0", "0", "1", ",", "1", "5", ",", "3", "1", ",", "3",
     "2", ",", "3", "3">>,
   <<"0", "-", "1", "5", ",", "1", "-", "1", "5", ",", "1", "5", "-", "1",
     "6", ",", "1", "5", "-", "1", ",", "3", "1", "-", "3", "2", ",", "3",
     "2", "-", "3", "0", ",", "3", "3", "-", "1">>,
   <<"0", "-", "1", "4", "/", "2", ",", "1", "-", "3", "/", "0", ",", "1",
     "4", "-", "1", "6", "/", "1", "7", ",", "1", "4", "-", "1", "/", "2",
     ",", "3", "1", "-", "3", "2", "/", "3", "3", ",", "3", "2", "-", "3",
     "0", "/", "2">>,
   <<"0", ",", "1", ",", "7", ",", "1", "2", ",", "1", "3", ",", "1", "4">>,
   <<"0", "-", "7", ",", "1", "-", "7", ",", "7", "-", "8", ",", "7", "-",
     "1", ",", "1", "2", "-", "1", "3", ",", "1", "3", "-", "1", "0", ",",
     "1", "4", "-", "1">>,
   <<"0", "-", "1", "2", "/", "2", ",", "1", "-", "3", "/", "0", ",", "4",
     "-", "8", "/", "9", ",", "1", "4", "-", "1", "/", "2", ",", "1", "2",
     "-", "1", "3", "/", "1", "4", ",", "1", "3", "-", "1", "0", "/", "2">>,
   <<"0", ",", "1", ",", "4", ",", "7", ",", "8", ",", "9">>,
   <<"0", "-", "4", ",", "1", "-", "4", ",", "4", "-", "5", ",", "4", "-",
     "1", ",", "7", "-", "8", ",", "8", "-", "7", ",", "9", "-", "1">>,
   <<"0", "-", "3", "/", "2", ",", "1", "-", "3", "/", "0", ",", "3", "-",
     "5", "/", "6", ",", "3", "-", "1", "/", "2", ",", "7", "-", "8", "/",
     "9", ",", "8", "-", "7", "/", "2">>,
   <<"*", ",", "*", "/", "0", ",", "M", "O", "N", "-", "F", "R", "I", ",",
     "1", "-">>,
   <<"6", "1", "-", "6", "0", "/", "6", "2", ",", "x">>}

\* The numbers at and next to a limit of some field.
EdgeNums ==
  {v \in 0..MaxNum :
     \E f \in DOMAIN InitCronTimeFieldLimits :
       v \in {InitCronTimeFieldLimits[f].min_time - 1,
              InitCronTimeFieldLimits[f].min_time,
              InitCronTimeFieldLimits[f].max_time,
              InitCronTimeFieldLimits[f].max_time + 1}}

\* Names: valid in some field, in both cases, and valid in none.
NameTexts ==
  {<<"m", "o", "n">>,
   <<"M", "O", "N">>,
   <<"F", "r", "i">>,
   <<"s", "u", "n">>,
   <<"j", "a", "n">>,
   <<"D", "E", "C">>,
   <<"m", "o", "N">>,
   <<"f", "o", "o">>}

\* One element of each kind.
ElementFields ==
  {<<"*">>}
  \cup {StrOfInt(v) : v \in 0..MaxNum}
  \cup {<<"*", "/">> \o StrOfInt(v) : v \in 0..MaxNum}
  \cup {StrOfInt(a) \o <<"-">> \o StrOfInt(b) : a, b \in EdgeNums}
  \cup {StrOfInt(a) \o <<"-">> \o StrOfInt(b) \o <<"/">> \o StrOfInt(c) :
          a, b, c \in EdgeNums}
  \cup NameTexts
  \cup {a \o <<"-">> \o b : a, b \in NameTexts}
  \cup {a \o <<"-">> \o b \o <<"/">> \o StrOfInt(c) :
          a, b \in NameTexts, c \in EdgeNums}

InitCTF ==
  /\ ctf_pc = "call"
  /\ field_name \in DOMAIN InitCronTimeFieldLimits
  /\ field_data \in CTFTestFields \cup ElementFields
  /\ ctf_parsed = EmptyDict
  /\ cron_times_left = <<>>
  /\ field_action = Unbound
  /\ last_diagnostics = <<>>
  /\ actual_field_errors = <<>>
  /\ the_fsm = None
  /\ parses = <<>>
  /\ call_no = 0
  /\ crontab_file = None
  /\ whitelisted_users = {}
  /\ USER_WHITELIST = {}
  /\ log = None
  /\ output = <<>>
  /\ pc = "none"
  /\ file = <<>>
  /\ cur_line_no = 0
  /\ cur_line = <<>>
  /\ pending = <<>>
  /\ validated = <<>>
  /\ rc = None
  /\ data_in = <<>>
  /\ data_out_init = InitCronFSM.data_out_init
  /\ fsm_pc = "none"
  /\ idx = 1
  /\ cur_state = "start"
  /\ parsed = <<>>
  /\ data_out = EmptyDict
  /\ steps = 0
  /\ run_no = 0
  /\ prev_out = None

\* FieldTest is called: parsed = self.fsm.Run(field_data), and
\* actual_field_errors = [].
FieldTest ==
  /\ ctf_pc = "call"
  /\ LET rs == RunState(InitCronFSM, field_data)
     IN  IF rs.pc = "raised"
           THEN /\ ctf_pc' = "raised"
                /\ UNCHANGED <<ctf_parsed, cron_times_left>>
           ELSE /\ ctf_pc' = "loop"
                /\ ctf_parsed' = rs.data_out
                /\ cron_times_left' = rs.data_out.cron_times
  /\ actual_field_errors' = <<>>
  /\ UNCHANGED <<field_name, field_data, field_action, last_diagnostics>>
  /\ UNCHANGED <<fsm_vars, chk_vars, par_vars, call_no>>

\* One iteration of the loop over parsed['cron_times'].
FieldTestLoop ==
  /\ ctf_pc = "loop"
  /\ cron_times_left # <<>>
  /\ field_action' = Head(cron_times_left)
  /\ last_diagnostics' =
       GetDiagnostics(Head(cron_times_left),
                      InitCronTimeFieldLimits[field_name])
  /\ actual_field_errors' = actual_field_errors \o last_diagnostics'
  /\ cron_times_left' = Tail(cron_times_left)
  /\ UNCHANGED <<ctf_pc, field_name, field_data, ctf_parsed>>
  /\ UNCHANGED <<fsm_vars, chk_vars, par_vars, call_no>>

\* The loop has visited every token.
FieldTestEnd ==
  /\ ctf_pc = "loop"
  /\ cron_times_left = <<>>
  /\ ctf_pc' = "done"
  /\ UNCHANGED <<field_name, field_data, ctf_parsed, cron_times_left,
                 field_action, last_diagnostics, actual_field_errors>>
  /\ UNCHANGED <<fsm_vars, chk_vars, par_vars, call_no>>

NextCTF == FieldTest \/ FieldTestLoop \/ FieldTestEnd

SpecCTF == InitCTF /\ [][NextCTF]_vars

(***************************************************************************)
(* The grammar of a field as the specification states it, independent of   *)
(* the transition table: the kind of an element by its shape, the          *)
(* elements of a field, and the canonical text of an element.              *)
(***************************************************************************)
IsNum(s) == Len(s) > 0 /\ \A i \in 1..Len(s) : s[i] \in DigitSet

IsText(s) == Len(s) > 0 /\ \A i \in 1..Len(s) : s[i] \in AsciiLetters

Before(s, i) == SubSeq(s, 1, i - 1)

After(s, i) == SubSeq(s, i + 1, Len(s))

Between(s, i, j) == SubSeq(s, i + 1, j - 1)

ElemKind(e) ==
  CASE e = <<"*">> -> "star"
    [] Len(e) > 2 /\ e[1] = "*" /\ e[2] = "/" /\ IsNum(After(e, 2)) ->
         "star_step"
    [] IsNum(e) -> "time"
    [] \E i \in 1..Len(e) :
         e[i] = "-" /\ IsNum(Before(e, i)) /\ IsNum(After(e, i)) -> "range"
    [] \E i, j \in 1..Len(e) :
         /\ i < j /\ e[i] = "-" /\ e[j] = "/"
         /\ IsNum(Before(e, i)) /\ IsNum(Between(e, i, j))
         /\ IsNum(After(e, j)) -> "range_step"
    [] IsText(e) -> "text"
    [] \E i \in 1..Len(e) :
         e[i] = "-" /\ IsText(Before(e, i)) /\ IsText(After(e, i)) ->
         "text_range"
    [] \E i, j \in 1..Len(e) :
         /\ i < j /\ e[i] = "-" /\ e[j] = "/"
         /\ IsText(Before(e, i)) /\ IsText(Between(e, i, j))
         /\ IsNum(After(e, j)) -> "text_range_step"
    [] OTHER -> "invalid"

\* The elements of a field: the texts between its commas.
RECURSIVE SplitComma(_)
SplitComma(s) ==
  IF \E i \in 1..Len(s) : s[i] = ","
    THEN LET i == CHOOSE k \in 1..Len(s) :
                    s[k] = "," /\ \A m \in 1..(k - 1) : s[m] # ","
         IN  <<Before(s, i)>> \o SplitComma(After(s, i))
    ELSE <<s>>

\* The elements of s that are followed by a comma.
CompleteElems(s) ==
  LET es == SplitComma(s) IN SubSeq(es, 1, Len(es) - 1)

ValidField(s) ==
  \A i \in 1..Len(SplitComma(s)) : ElemKind(SplitComma(s)[i]) # "invalid"

\* A number without its leading zeros.
RECURSIVE CanonNum(_)
CanonNum(s) ==
  IF Len(s) > 1 /\ s[1] = "0" THEN CanonNum(Tail(s)) ELSE s

\* The length of the run of digits s starts with.
RECURSIVE DigitRun(_)
DigitRun(s) ==
  IF Len(s) > 0 /\ s[1] \in DigitSet THEN 1 + DigitRun(Tail(s)) ELSE 0

\* A text with every number in it written without leading zeros.
RECURSIVE Canon(_)
Canon(s) ==
  IF Len(s) = 0 THEN <<>>
  ELSE IF s[1] \in DigitSet
    THEN CanonNum(SubSeq(s, 1, DigitRun(s)))
         \o Canon(SubSeq(s, DigitRun(s) + 1, Len(s)))
  ELSE <<s[1]>> \o Canon(Tail(s))

HasError(d) == "parser_error" \in DOMAIN d

Finished == fsm_pc \in {"returned", "raised"}

StructuralChars == {"*", "-", "/", ","}

\* Two adjacent structural characters other than "*/", "*," and ",*".
HasBadPair(s) ==
  \E i \in 1..(Len(s) - 1) :
    /\ s[i] \in StructuralChars
    /\ s[i + 1] \in StructuralChars
    /\ <<s[i], s[i + 1]>> \notin {<<"*", "/">>, <<"*", ",">>, <<",", "*">>}

(***************************************************************************)
(* The findings of a file as the specification states them: what each line *)
(* raises, and which categories the directives of the earlier lines have   *)
(* switched off.                                                           *)
(***************************************************************************)
\* The class of each line a file can hold.
ClassOfLine ==
  [raw \in Lines \cup ShortFileLines |-> ParseLine(Strip(raw))]

\* The classes of the lines read so far.
LineClasses == [j \in 1..Len(file) |-> ClassOfLine[file[j]]]

\* Line j is a valid disable-msg (enable-msg) directive for category C.
IsDirective(cls, j, command, C) ==
  /\ cls[j].class = "CronLineChkCrontabCmd"
  /\ cls[j].command = command
  /\ cls[j].msg_kind = C
  /\ C \in MsgKinds

\* Category C is switched off on line j: some earlier line disables it and
\* no line between the two enables it.
Suppressed(cls, C, j) ==
  \E k \in 1..(j - 1) :
    /\ IsDirective(cls, k, DisableMsg, C)
    /\ \A m \in (k + 1)..(j - 1) : ~IsDirective(cls, m, EnableMsg, C)

IsFinding(c) == c.op \in {"LineError", "LineWarn"}

IsLineError(c) == c.op = "LineError"

IsLineWarn(c) == c.op = "LineWarn"

\* The findings the lines read so far raise, line by line, in order.
Findings == [j \in 1..Len(file) |-> SelectSeq(validated[j], IsFinding)]

\* The findings that count, line by line.
Counted ==
  LET cls == LineClasses
  IN  [j \in 1..Len(file) |->
         LET on(c) == ~Suppressed(cls, c.msg_kind, j)
         IN  SelectSeq(SelectSeq(validated[j], IsFinding), on)]

Messages(cs) == [i \in 1..Len(cs) |-> <<cs[i].msg_kind, cs[i].message>>]

\* The warning about the name of the file counts.
NameWarns ==
  IF crontab_file.exists /\ FileNameWarns(crontab_file.basename)
    THEN 1 ELSE 0

\* Every call ValidateAndLog makes for the current line has been made.
LineValidated == pc = "validate" /\ pending = <<>>

(***************************************************************************)
(* Claims about check_crontab and the LogCounter, checked under Spec.      *)
(***************************************************************************)

\* C1: the lines are handled in file order, and a valid disable-msg for a
\* category on line k switches the category off from line k+1 on, until a
\* valid enable-msg for it, which switches it on again from the line after
\* it: once a line is validated, the buffers hold exactly the findings of
\* the line whose category no earlier line has switched off, and the counts
\* are the numbers of such findings over the lines read so far.
C1_DirectiveOrdering ==
  /\ pc \in {"lines", "validate"} => cur_line_no = Len(file)
  /\ Len(validated) = Len(file)
  /\ LineValidated =>
       LET counted == Counted
           all == Flatten(counted)
       IN  /\ log.line_errors =
                Messages(SelectSeq(counted[cur_line_no], IsLineError))
           /\ log.line_warns =
                Messages(SelectSeq(counted[cur_line_no], IsLineWarn))
           /\ log.error_count = Len(SelectSeq(all, IsLineError))
           /\ log.warn_count = Len(SelectSeq(all, IsLineWarn)) + NameWarns

\* C1 witness: line 2 disables a category of which line 1 and line 3 both
\* raise a finding; the one of line 1 has been counted, the one of line 3
\* has been dropped.
C1_Witness ==
  /\ LineValidated
  /\ cur_line_no = 3
  /\ \E C \in MsgKinds :
       /\ IsDirective(LineClasses, 2, DisableMsg, C)
       /\ \E i \in 1..Len(Counted[1]) : Counted[1][i].msg_kind = C
       /\ \E i \in 1..Len(Findings[3]) : Findings[3][i].msg_kind = C
       /\ \A i \in 1..Len(log.line_errors) : log.line_errors[i][1] # C
       /\ \A i \in 1..Len(log.line_warns) : log.line_warns[i][1] # C
  /\ log.error_count + log.warn_count > Len(Findings[3])

\* C2: a LineError or LineWarn call for a category in the suppression set
\* changes neither the buffers nor the counts; for a category outside the
\* set it appends one message to its buffer and adds one to its own count,
\* leaving the other buffer and the other count alone; Emit changes no
\* count.
C2_CountAtBuffering ==
  [][ /\ (pc = "validate" /\ pending # <<>> /\ IsFinding(Head(pending))) =>
           LET c == Head(pending)
               own == IF IsLineError(c) THEN "line_errors" ELSE "line_warns"
               other == IF IsLineError(c) THEN "line_warns" ELSE "line_errors"
               own_count == IF IsLineError(c) THEN "error_count"
                            ELSE "warn_count"
               other_count == IF IsLineError(c) THEN "warn_count"
                              ELSE "error_count"
           IN  IF c.msg_kind \in log.ignored
                 THEN log' = log
                 ELSE /\ log'[own] = Append(log[own], <<c.msg_kind, c.message>>)
                      /\ log'[own_count] = log[own_count] + 1
                      /\ log'[other] = log[other]
                      /\ log'[other_count] = log[other_count]
                      /\ log'.ignored = log.ignored
      /\ LineValidated =>
           /\ log'.error_count = log.error_count
           /\ log'.warn_count = log.warn_count
    ]_vars

\* C2 witness: a line has raised an error of a category that counts and a
\* warning of a suppressed category: the error is buffered and counted, the
\* warning is neither.
C2_Witness ==
  /\ LineValidated
  /\ \E i \in 1..Len(Findings[cur_line_no]) :
       /\ IsLineWarn(Findings[cur_line_no][i])
       /\ Findings[cur_line_no][i].msg_kind \in log.ignored
  /\ \E i \in 1..Len(Findings[cur_line_no]) :
       /\ IsLineError(Findings[cur_line_no][i])
       /\ Findings[cur_line_no][i].msg_kind \notin log.ignored
  /\ Len(log.line_errors) = 1
  /\ log.line_warns = <<>>
  /\ log.error_count = 1
  /\ log.warn_count = 0

C5_TokensBeforeFailure ==
  (Finished /\ HasError(data_out)) =>
    LET done == CompleteElems(parsed)
    IN  /\ parsed = SubSeq(data_in, 1, Len(parsed))
        /\ Len(data_out.cron_times) = Len(done)
        /\ \A i \in 1..Len(done) :
             /\ data_out.cron_times[i].kind = ElemKind(done[i])
             /\ data_out.cron_times[i].text = Canon(done[i])

\* C5 witness: '1-55,34//3,6-9' returns an error and only the range 1-55,
\* although 34 alone is a valid element and 6-9 follows.
C5_Witness ==
  /\ fsm_pc = "returned"
  /\ data_in = <<"1", "-", "5", "5", ",", "3", "4", "/", "/", "3", ",",
                 "6", "-", "9">>
  /\ HasError(data_out)
  /\ data_out.cron_times = <<CTRange(1, 55)>>

\* C6 as stated: a valid single element is parsed into one token of its
\* kind whose rendering equals the input text.
C6_RenderingEqualsInput ==
  (Finished /\ ElemKind(data_in) # "invalid") =>
    /\ fsm_pc = "returned"
    /\ ~HasError(data_out)
    /\ Len(data_out.cron_times) = 1
    /\ data_out.cron_times[1].kind = ElemKind(data_in)
    /\ data_out.cron_times[1].text = data_in

\* C6 amended: a valid single element is parsed into one token of its kind
\* whose rendering equals the input text with every number written without
\* leading zeros.
C6_RenderingEqualsCanonicalInput ==
  (Finished /\ ElemKind(data_in) # "invalid") =>
    /\ fsm_pc = "returned"
    /\ ~HasError(data_out)
    /\ Len(data_out.cron_times) = 1
    /\ data_out.cron_times[1].kind = ElemKind(data_in)
    /\ data_out.cron_times[1].text = Canon(data_in)

\* C6 witness: '11-4/02' has been parsed into the one token 11-4/2.
C6_Witness ==
  /\ fsm_pc = "returned"
  /\ data_in = <<"1", "1", "-", "4", "/", "0", "2">>
  /\ data_out.cron_times = <<CTRangeStep(11, 4, 2)>>
  /\ data_out.cron_times[1].text = <<"1", "1", "-", "4", "/", "2">>

\* The fields of a token that are set.
SameToken(a, b) ==
  /\ a.kind = b.kind
  /\ DOMAIN a = DOMAIN b
  /\ "start" \in DOMAIN a => a.start = b.start
  /\ "end" \in DOMAIN a => a.end = b.end
  /\ "step" \in DOMAIN a => a.step = b.step

\* C7: parsing the rendering of a token that Run returned succeeds and
\* returns exactly one token, of the same kind and with equal start, end
\* and step.
C7_RoundTrip ==
  Finished =>
    \A i \in 1..Len(data_out.cron_times) :
      LET t == data_out.cron_times[i]
          again == RunState(InitCronFSM, t.text)
      IN  /\ again.pc = "returned"
          /\ ~HasError(again.data_out)
          /\ Len(again.data_out.cron_times) = 1
          /\ SameToken(again.data_out.cron_times[1], t)

\* C7 witness: a returned list holds a range with step whose input had
\* leading zeros, a text range with step and a star with step.
C7_Witness ==
  /\ fsm_pc = "returned"
  /\ Len(data_out.cron_times) = 3
  /\ data_out.cron_times[1] = CTRangeStep(11, 4, 2)
  /\ data_out.cron_times[2].kind = "text_range_step"
  /\ data_out.cron_times[3].kind = "star_step"

\* C8: a comma-joined list of n valid elements is parsed without error into
\* exactly n tokens, the i-th being of the kind of the i-th element and
\* equal to the token the i-th element alone is parsed into.
C8_ListOfElements ==
  (Finished /\ ValidField(data_in)) =>
    LET es == SplitComma(data_in)
    IN  /\ fsm_pc = "returned"
        /\ ~HasError(data_out)
        /\ Len(data_out.cron_times) = Len(es)
        /\ \A i \in 1..Len(es) :
             /\ data_out.cron_times[i].kind = ElemKind(es[i])
             /\ <<data_out.cron_times[i]>> = Run(es[i]).cron_times
             /\ data_out.cron_times[i].text = Canon(es[i])

\* C8 witness: the seven-element field of testComplex has been parsed into
\* seven tokens.
C8_Witness ==
  /\ fsm_pc = "returned"
  /\ Len(SplitComma(data_in)) = 7
  /\ ~HasError(data_out)
  /\ [i \in 1..7 |-> data_out.cron_times[i].kind] =
       <<"text", "time", "star", "star_step", "text_range", "range",
         "range_step">>

\* The empty field, a field that begins or ends with ',' or holds ',,'.
EmptyElement(s) == \E i \in 1..Len(SplitComma(s)) : SplitComma(s)[i] = <<>>

\* C9: the empty field, a field that begins with ',', a field that ends
\* with ',' and a field with an empty element are returned with a
\* parser_error.
C9_EmptyElementIsError ==
  (Finished /\ EmptyElement(data_in)) =>
    fsm_pc = "returned" /\ HasError(data_out)

\* C9 witness: a field that ends with ',' after a valid element has been
\* read to its end and returned with an error.
C9_Witness ==
  /\ fsm_pc = "returned"
  /\ Len(data_in) > 1
  /\ data_in[Len(data_in)] = ","
  /\ parsed = data_in
  /\ HasError(data_out)
  /\ Len(data_out.cron_times) > 0

\* C10: a field with two adjacent structural characters other than '*/',
\* '*,' and ',*' is returned with a parser_error, wherever the pair is.
C10_BadPairIsError ==
  (Finished /\ HasBadPair(data_in)) =>
    fsm_pc = "returned" /\ HasError(data_out)

\* C10 witness: a field whose only bad pair follows a complete element has
\* been returned with an error.
C10_Witness ==
  /\ fsm_pc = "returned"
  /\ HasBadPair(data_in)
  /\ ~HasBadPair(SubSeq(data_in, 1, Len(data_in) - 1))
  /\ Len(data_out.cron_times) > 0
  /\ HasError(data_out)

(***************************************************************************)
(* The faults of an element that the specification lists.                  *)
(***************************************************************************)
Occurrences(e, c) == Cardinality({i \in 1..Len(e) : e[i] = c})

\* A '/' that follows neither a lone '*' nor a complete range N-N or T-T.
StepNotAfterStarOrRange(e) ==
  \E j \in 1..Len(e) :
    /\ e[j] = "/"
    /\ Before(e, j) # <<"*">>
    /\ ~\E i \in 1..(j - 1) :
          /\ e[i] = "-"
          /\ \/ IsNum(Before(e, i)) /\ IsNum(Between(e, i, j))
             \/ IsText(Before(e, i)) /\ IsText(Between(e, i, j))

\* N/N or T/N.
StepAfterOne(e) ==
  \E j \in 1..Len(e) :
    /\ e[j] = "/"
    /\ IsNum(Before(e, j)) \/ IsText(Before(e, j))
    /\ IsNum(After(e, j))

\* N-T or T-N, with or without a step.
MixedRange(e) ==
  \E i \in 1..Len(e) :
    /\ e[i] = "-"
    /\ i < Len(e)
    /\ \/ IsNum(Before(e, i)) /\ e[i + 1] \in AsciiLetters
       \/ IsText(Before(e, i)) /\ e[i + 1] \in DigitSet

\* A digit next to a letter.
DigitNextToLetter(e) ==
  \E i \in 1..(Len(e) - 1) :
    \/ e[i] \in AsciiLetters /\ e[i + 1] \in DigitSet
    \/ e[i] \in DigitSet /\ e[i + 1] \in AsciiLetters

\* A step that is not a number.
NonDigitStep(e) == \E j \in 1..Len(e) : e[j] = "/" /\ ~IsNum(After(e, j))

ElemFault(e) ==
  \/ StepNotAfterStarOrRange(e)
  \/ MixedRange(e)
  \/ Occurrences(e, "-") > 1
  \/ Occurrences(e, "/") > 1
  \/ DigitNextToLetter(e)
  \/ NonDigitStep(e)

\* C11: a field with an element in which a step follows something other
\* than '*' or a complete range, a range mixes a number and a name, '-' or
\* '/' occurs twice, a digit is next to a letter or the step is not a number,
\* is returned with a parser_error; and an element N/N or T/N gives no token,
\* neither do the elements after it.
C11_StepAndRangeFaults ==
  fsm_pc = "returned" =>
    \A k \in 1..Len(SplitComma(data_in)) :
      /\ ElemFault(SplitComma(data_in)[k]) => HasError(data_out)
      /\ StepAfterOne(SplitComma(data_in)[k]) =>
           Len(data_out.cron_times) < k

\* C11 witness: a field N/N or T/N has been read up to its '/' and
\* returned with an error and no token.
C11_Witness ==
  /\ fsm_pc = "returned"
  /\ StepAfterOne(data_in)
  /\ Occurrences(data_in, ",") = 0
  /\ HasError(data_out)
  /\ steps < Len(data_in)
  /\ data_out.cron_times = <<>>

(***************************************************************************)
(* The limits of the fields as the specification's table states them, and  *)
(* the messages of the token the loop of FieldTest visited last.           *)
(***************************************************************************)
FieldMin ==
  [f \in {"minute", "hour", "day of month", "month", "day of week"} |->
     IF f \in {"day of month", "month"} THEN 1 ELSE 0]

FieldMax ==
  [f \in {"minute", "hour", "day of month", "month", "day of week"} |->
     CASE f = "minute" -> 59
       [] f = "hour" -> 23
       [] f = "day of month" -> 31
       [] f = "month" -> 12
       [] f = "day of week" -> 7]

FieldAliases ==
  [f \in {"minute", "hour", "day of month", "month", "day of week"} |->
     CASE f = "month" ->
            {<<"j", "a", "n">>, <<"f", "e", "b">>, <<"m", "a", "r">>,
             <<"a", "p", "r">>, <<"m", "a", "y">>, <<"j", "u", "n">>,
             <<"j", "u", "l">>, <<"a", "u", "g">>, <<"s", "e", "p">>,
             <<"o", "c", "t">>, <<"n", "o", "v">>, <<"d", "e", "c">>}
       [] f = "day of week" ->
            {<<"s", "u", "n">>, <<"m", "o", "n">>, <<"t", "u", "e">>,
             <<"w", "e", "d">>, <<"t", "h", "u">>, <<"f", "r", "i">>,
             <<"s", "a", "t">>}
       [] OTHER -> {}]

\* The loop has visited a token: last_diagnostics are its messages.
Diagnosed == ctf_pc \in {"loop", "done"} /\ field_action # Unbound

\* 1 when the condition holds, else 0.
Bit(b) == IF b THEN 1 ELSE 0

\* The number of messages of last_diagnostics with the text msg.
Said(msg) ==
  Cardinality({i \in 1..Len(last_diagnostics) : last_diagnostics[i].msg = msg})

TooLow == "is too low for field"

TooHigh == "is too high for field"

StartAfterEnd == "is greater than"

StepAfterLast == "the step is greater than the last number"

NotValid == "is not valid for field"

(***************************************************************************)
(* Claims about the diagnostics of a token, checked under SpecCTF.         *)
(***************************************************************************)

\* C12: a Time token of value v in a field of limits min and max gets no
\* message when min <= v <= max, one message, 'too high', when v > max and
\* one message, 'too low', when v < min, the limits being those of the
\* table: 0 and 59 are clean minutes, 60 is not, and 7 is a day of the week.
C12_TimeBounds ==
  (Diagnosed /\ field_action.kind = "time") =>
    LET v == field_action.start
        min == FieldMin[field_name]
        max == FieldMax[field_name]
    IN  /\ (min <= v /\ v <= max) <=> last_diagnostics = <<>>
        /\ v > max => Len(last_diagnostics) = 1 /\ Said(TooHigh) = 1
        /\ v < min => Len(last_diagnostics) = 1 /\ Said(TooLow) = 1
        /\ (field_name = "minute" /\ v \in {0, 59}) => last_diagnostics = <<>>
        /\ (field_name = "minute" /\ v = 60) => Len(last_diagnostics) = 1
        /\ (field_name = "day of week" /\ v = 7) => last_diagnostics = <<>>

\* C12 witness: the minute 60 has got its one message, after the minute 59
\* got none.
C12_Witness ==
  /\ Diagnosed
  /\ field_name = "minute"
  /\ field_action.kind = "time"
  /\ field_action.start = 60
  /\ Len(last_diagnostics) = 1
  /\ last_diagnostics[1].msg = TooHigh
  /\ last_diagnostics[1].value = 60
  /\ actual_field_errors = last_diagnostics
  /\ Len(ctf_parsed.cron_times) - Len(cron_times_left) > 1

\* The token visited last is a numeric range, with or without a step.
NumericRange == Diagnosed /\ field_action.kind \in {"range", "range_step"}

\* The 'too low' and 'too high' messages the step of the token gets.
StepTooLow ==
  Bit(field_action.kind = "range_step" /\ field_action.step < 1)

StepTooHigh ==
  Bit(field_action.kind = "range_step"
      /\ field_action.step > FieldMax[field_name])

\* C13 as stated: a numeric range gets a 'too low' message for each of its
\* start and its end that is below the minimum of the field, and a
\* 'too high' message for each of the two that is above the maximum.
C13_BothNumbersBothBounds ==
  NumericRange =>
    /\ Said(TooLow) =
         Bit(field_action.start < FieldMin[field_name])
         + Bit(field_action.end < FieldMin[field_name]) + StepTooLow
    /\ Said(TooHigh) =
         Bit(field_action.start > FieldMax[field_name])
         + Bit(field_action.end > FieldMax[field_name]) + StepTooHigh

\* C13: a numeric range gets a 'too low' message exactly when its start is
\* below the minimum of the field, about the start, and a 'too high' message
\* exactly when its end is above the maximum, about the end; the start is
\* not compared with the maximum, nor the end with the minimum.
C13_StartLowEndHigh ==
  NumericRange =>
    /\ Said(TooLow) =
         Bit(field_action.start < FieldMin[field_name]) + StepTooLow
    /\ Said(TooHigh) =
         Bit(field_action.end > FieldMax[field_name]) + StepTooHigh
    /\ field_action.start < FieldMin[field_name] =>
         \E i \in 1..Len(last_diagnostics) :
           /\ last_diagnostics[i].msg = TooLow
           /\ last_diagnostics[i].value = field_action.start
    /\ field_action.end > FieldMax[field_name] =>
         \E i \in 1..Len(last_diagnostics) :
           /\ last_diagnostics[i].msg = TooHigh
           /\ last_diagnostics[i].value = field_action.end

\* C13 witness: the hours 24-30, both above the maximum, have got one
\* message, 'too high', about 30.
C13_Witness ==
  /\ NumericRange
  /\ field_name = "hour"
  /\ field_action.kind = "range"
  /\ field_action.start = 24
  /\ field_action.end = 30
  /\ Len(last_diagnostics) = 1
  /\ last_diagnostics[1].msg = TooHigh
  /\ last_diagnostics[1].value = 30

\* C14: a field that is one element N-N with the first number above the
\* second is parsed without a parser_error into its one token; and a
\* numeric range, with or without a step, gets the message 'is greater
\* than' once when its start is above its end and not at all otherwise,
\* whatever other messages it gets; the hours 12-1 get this one message only.
C14_StartAfterEnd ==
  /\ (/\ ctf_pc \in {"loop", "done"}
      /\ ElemKind(field_data) = "range"
      /\ \E i \in 1..Len(field_data) :
           /\ field_data[i] = "-"
           /\ IntOf(Before(field_data, i)) > IntOf(After(field_data, i))) =>
       /\ ~HasError(ctf_parsed)
       /\ Len(ctf_parsed.cron_times) = 1
       /\ ctf_parsed.cron_times[1].kind = "range"
  /\ NumericRange =>
       /\ Said(StartAfterEnd) = Bit(field_action.start > field_action.end)
       /\ (/\ field_name = "hour"
           /\ field_action.kind = "range"
           /\ field_action.start = 12
           /\ field_action.end = 1) => Len(last_diagnostics) = 1

\* C14 witness: a range with its start above its end and above the maximum
\* of the field has got the message about the order and another message.
C14_Witness ==
  /\ NumericRange
  /\ field_action.start > field_action.end
  /\ ~HasError(ctf_parsed)
  /\ Said(StartAfterEnd) = 1
  /\ Len(last_diagnostics) > 1

\* The messages a numeric range gets for its two numbers.
RangeCount ==
  Bit(field_action.start > field_action.end)
  + Bit(field_action.start < FieldMin[field_name])
  + Bit(field_action.end > FieldMax[field_name])

\* C15: every check of a numeric range adds its message whatever the other
\* checks found: a Range token gets [start > end] + [start < min] +
\* [end > max] messages, a RangeStep token these and [step < 1] +
\* [step > end] + [step > max]; so the hours 23-24/25 get three messages,
\* 12-1/2 two, 25-1 one and 24-30 one.
C15_MessageCount ==
  /\ (Diagnosed /\ field_action.kind = "range") =>
       Len(last_diagnostics) = RangeCount
  /\ (Diagnosed /\ field_action.kind = "range_step") =>
       Len(last_diagnostics) =
         RangeCount
         + Bit(field_action.step < 1)
         + Bit(field_action.step > field_action.end)
         + Bit(field_action.step > FieldMax[field_name])
  /\ (NumericRange /\ field_name = "hour") =>
       LET t == field_action
           is(kind, start, end) ==
             t.kind = kind /\ t.start = start /\ t.end = end
       IN  /\ (is("range_step", 23, 24) /\ t.step = 25) =>
                Len(last_diagnostics) = 3
           /\ (is("range_step", 12, 1) /\ t.step = 2) =>
                Len(last_diagnostics) = 2
           /\ is("range", 25, 1) => Len(last_diagnostics) = 1
           /\ is("range", 24, 30) => Len(last_diagnostics) = 1

\* C15 witness: the hours 12-1/2 have got their two messages, one for the
\* order of the range and one for the step after the last number.
C15_Witness ==
  /\ Diagnosed
  /\ field_name = "hour"
  /\ field_action.kind = "range_step"
  /\ field_action.start = 12
  /\ field_action.end = 1
  /\ field_action.step = 2
  /\ Len(last_diagnostics) = 2
  /\ Said(StartAfterEnd) = 1
  /\ Said(StepAfterLast) = 1

\* The token is one with a step and no last number: */N or T-T/N.
SteppedNoLast ==
  Diagnosed /\ field_action.kind \in {"star_step", "text_range_step"}

\* C16: a Star token gets no message in any field; the step of a StarStep
\* or TextRangeStep token gets [step < 1] + [step > max] messages and never
\* the 'greater than the last number' one, so that */0 gets one message,
\* the minutes */59 none and the minutes */60 one.
C16_StarAndStep ==
  /\ (Diagnosed /\ field_action.kind = "star") => last_diagnostics = <<>>
  /\ SteppedNoLast =>
       /\ Said(TooLow) = Bit(field_action.step < 1)
       /\ Said(TooHigh) = Bit(field_action.step > FieldMax[field_name])
       /\ Said(StepAfterLast) = 0
       /\ Said(StartAfterEnd) = 0
       /\ Len(last_diagnostics) - Said(NotValid) =
            Bit(field_action.step < 1)
            + Bit(field_action.step > FieldMax[field_name])
  /\ (Diagnosed /\ field_action.kind = "star_step") =>
       /\ Said(NotValid) = 0
       /\ field_action.step = 0 => Len(last_diagnostics) = 1
       /\ (field_name = "minute" /\ field_action.step = 59) =>
            last_diagnostics = <<>>
       /\ (field_name = "minute" /\ field_action.step = 60) =>
            Len(last_diagnostics) = 1

\* C16 witness: */0 has got its one message, about the step 0 being too
\* low.
C16_Witness ==
  /\ Diagnosed
  /\ field_action.kind = "star_step"
  /\ field_action.step = 0
  /\ Len(last_diagnostics) = 1
  /\ last_diagnostics[1].msg = TooLow
  /\ last_diagnostics[1].value = 0

\* The two letters are the same, their case left aside.
SameLetter(a, b) ==
  \/ a = b
  \/ \E k \in 1..Len(LowerLetters) :
       {a, b} = {LowerLetters[k], UpperLetters[k]}

\* The name is, its case left aside, one of the names of the field.
KnownName(name, f) ==
  \E alias \in FieldAliases[f] :
    /\ Len(alias) = Len(name)
    /\ \A i \in 1..Len(name) : SameLetter(name[i], alias[i])

\* The token is made of names: T, T-T or T-T/N.
Named ==
  Diagnosed /\ field_action.kind \in {"text", "text_range", "text_range_step"}

\* C17: each name of a Text, TextRange or TextRangeStep token gets one
\* 'not valid for field' message exactly when its lower-cased form is not a
\* name of the field; minutes, hours and days of the month have no names,
\* and the case of the letters does not matter: the days of the week
\* MON-FRI and mon-fri get no message.
C17_NamesOfField ==
  Named =>
    LET t == field_action
        isRange(a, b) ==
          /\ t.kind = "text_range"
          /\ Len(t.start) = Len(a)
          /\ Len(t.end) = Len(b)
          /\ \A i \in 1..Len(a) : SameLetter(t.start[i], a[i])
          /\ \A i \in 1..Len(b) : SameLetter(t.end[i], b[i])
    IN  /\ Said(NotValid) =
             Bit(~KnownName(t.start, field_name))
             + (IF t.kind = "text" THEN 0
                ELSE Bit(~KnownName(t.end, field_name)))
        /\ t.kind # "text_range_step" =>
             Len(last_diagnostics) = Said(NotValid)
        /\ field_name \in {"minute", "hour", "day of month"} =>
             Said(NotValid) = IF t.kind = "text" THEN 1 ELSE 2
        /\ (field_name = "day of week"
            /\ isRange(<<"m", "o", "n">>, <<"f", "r", "i">>)) =>
             last_diagnostics = <<>>

\* C17 witness: the days of the week MON-FRI, in capitals, have got no
\* message.
C17_Witness ==
  /\ Named
  /\ field_name = "day of week"
  /\ field_action.kind = "text_range"
  /\ field_action.start = <<"M", "O", "N">>
  /\ field_action.end = <<"F", "R", "I">>
  /\ last_diagnostics = <<>>

(***************************************************************************)
(* Claims about the lines of a crontab, checked under Spec.                *)
(***************************************************************************)
\* Line j of the file is a chkcrontab directive.
DirectiveLine(j) == ClassOfLine[file[j]].class = "CronLineChkCrontabCmd"

\* The command of the directive is neither disable-msg nor enable-msg.
CommandFault(cl) == cl.command \notin {DisableMsg, EnableMsg}

\* The category of the directive is not a known one.
CategoryFault(cl) == cl.msg_kind \notin MsgKinds

IsDirectiveError(c) == IsLineError(c) /\ c.msg_kind = CHKCRONTAB_ERROR

\* C18: a directive line raises one CHKCRONTAB_ERROR when its command is
\* neither disable-msg nor enable-msg and one more when its category is not,
\* letter for letter, one of the eleven known names: two with both faults,
\* none with neither; it raises nothing else.
C18_DirectiveErrors ==
  /\ Cardinality(MsgKinds) = 11
  /\ \A j \in 1..Len(file) :
       DirectiveLine(j) =>
         LET cl == ClassOfLine[file[j]]
             raised == SelectSeq(validated[j], IsFinding)
         IN  /\ Len(raised) =
                  Bit(CommandFault(cl)) + Bit(CategoryFault(cl))
             /\ \A i \in 1..Len(raised) : IsDirectiveError(raised[i])
             /\ (j = cur_line_no /\ LineValidated
                 /\ CHKCRONTAB_ERROR \notin log.ignored) =>
                  /\ Len(log.line_errors) = Len(raised)
                  /\ log.line_warns = <<>>

\* C18 witness: a directive with an unknown command and an unknown category
\* has got its two errors, and an earlier directive in small letters for a
\* category written in capitals its one.
C18_Witness ==
  /\ LineValidated
  /\ cur_line_no > 1
  /\ DirectiveLine(1)
  /\ ~CommandFault(ClassOfLine[file[1]])
  /\ Lower(ClassOfLine[file[1]].msg_kind) = Lower(LINE_ERROR)
  /\ Len(SelectSeq(validated[1], IsDirectiveError)) = 1
  /\ DirectiveLine(cur_line_no)
  /\ CommandFault(ClassOfLine[file[cur_line_no]])
  /\ CategoryFault(ClassOfLine[file[cur_line_no]])
  /\ Len(log.line_errors) = 2
  /\ log.error_count = 3

\* C19 as stated: the suppression set changes only at a directive that is
\* valid in both its command and its category, so that it holds known
\* categories only.
C19_OnlyKnownCategories == log.ignored \subseteq MsgKinds

IsSetCall(c) == c.op \in {"Ignore", "Unignore"}

\* C19, the part that holds: the suppression set changes only at the Ignore
\* or Unignore call of a directive, which a directive of an invalid command
\* does not make, whereas a disable-msg of an unknown category makes it
\* after its error.
C19_InvalidCommandKeepsSet ==
  [][ /\ log'.ignored # log.ignored =>
           /\ pc = "validate"
           /\ pending # <<>>
           /\ IsSetCall(Head(pending))
           /\ DirectiveLine(cur_line_no)
           /\ ~CommandFault(ClassOfLine[file[cur_line_no]])
      /\ \A j \in 1..Len(file) :
           /\ SelectSeq(validated[j], IsSetCall) # <<>> =>
                DirectiveLine(j) /\ ~CommandFault(ClassOfLine[file[j]])
           /\ (DirectiveLine(j) /\ CommandFault(ClassOfLine[file[j]])) =>
                SelectSeq(validated[j], IsSetCall) = <<>>
           /\ (DirectiveLine(j) /\ ~CommandFault(ClassOfLine[file[j]])) =>
                Len(SelectSeq(validated[j], IsSetCall)) = 1
    ]_vars

\* C19 witness: a directive of an invalid command has been validated after
\* a valid disable-msg, and the set is as the disable-msg left it.
C19_Witness ==
  /\ LineValidated
  /\ cur_line_no = 2
  /\ IsDirective(LineClasses, 1, DisableMsg, USER_NOT_FOUND)
  /\ DirectiveLine(2)
  /\ CommandFault(ClassOfLine[file[2]])
  /\ log.ignored = {USER_NOT_FOUND}

\* The five fields of a schedule, in the order of the line.
FieldOrder ==
  <<"minute", "hour", "day of month", "month", "day of week">>

IsFieldError(c) ==
  IsLineError(c) /\ c.msg_kind \in {FIELD_PARSE_ERROR, FIELD_VALUE_ERROR}

\* The place in the line of the field a field error is about.
FieldIndex(c) == CHOOSE i \in 1..Len(FieldOrder) : FieldOrder[i] = c.message.field

\* The number of diagnostics of the tokens the parser completes in the text
\* of field f.
DiagnosticsOf(text, f) ==
  LET ts == Run(text).cron_times
  IN  Len(Flatten([i \in 1..Len(ts) |->
                     GetDiagnostics(ts[i], InitCronTimeFieldLimits[f])]))

\* For each schedule line a file can hold and each of its fields: whether
\* the field fails to parse, and the number of diagnostics of its tokens.
FieldFaults ==
  [raw \in {r \in Lines : ClassOfLine[r].class = "CronLineTime"} |->
     [i \in 1..Len(FieldOrder) |->
        LET text == ClassOfLine[raw].time_field[FieldOrder[i]]
        IN  [parse |-> Bit(~ValidField(text)),
             value |-> DiagnosticsOf(text, FieldOrder[i])]]]

\* The line '60 * * * * root true'.
BadMinuteLine ==
  <<"6", "0", " ", "*", " ", "*", " ", "*", " ", "*", " ", "r", "o", "o",
    "t", " ", "t", "r", "u", "e", "\n">>

\* C20: the five fields of a schedule line are checked each on its own, in
\* the order minute, hour, day of month, month, day of week: a field raises
\* one FIELD_PARSE_ERROR exactly when it fails to parse, and one
\* FIELD_VALUE_ERROR for every diagnostic of every token completed in it,
\* those completed before a parse failure included; a failure in a field
\* does not skip the fields after it; the line '60 * * * * root true' raises
\* exactly one FIELD_VALUE_ERROR and gives the verdict 2.
C20_FiveFields ==
  /\ \A j \in 1..Len(file) :
       ClassOfLine[file[j]].class = "CronLineTime" =>
         LET errs == SelectSeq(validated[j], IsFieldError)
             about(kind, f) ==
               Cardinality({i \in 1..Len(errs) :
                              /\ errs[i].msg_kind = kind
                              /\ errs[i].message.field = f})
         IN  /\ \A i \in 1..Len(FieldOrder) :
                  LET f == FieldOrder[i]
                  IN  /\ about(FIELD_PARSE_ERROR, f) =
                           FieldFaults[file[j]][i].parse
                      /\ about(FIELD_VALUE_ERROR, f) =
                           FieldFaults[file[j]][i].value
             /\ \A a, b \in 1..Len(errs) :
                  a < b => FieldIndex(errs[a]) <= FieldIndex(errs[b])
  /\ \A j \in 1..Len(file) :
       file[j] = BadMinuteLine =>
         /\ Len(Findings[j]) = 1
         /\ Findings[j][1].msg_kind = FIELD_VALUE_ERROR
         /\ IsLineError(Findings[j][1])
  /\ (pc = "done" /\ file = <<BadMinuteLine>>) =>
       rc = 2 /\ log.error_count = 1

\* C20 witness: a line whose minutes fail to parse after the token 60 and
\* whose hours are 24 has been validated: the minutes have got their parse
\* error and the value error of 60, the hours their value error.
C20_Witness ==
  /\ LineValidated
  /\ ClassOfLine[file[cur_line_no]].class = "CronLineTime"
  /\ FieldFaults[file[cur_line_no]][1].parse = 1
  /\ LET errs == SelectSeq(validated[cur_line_no], IsFieldError)
     IN  /\ Len(errs) = 3
         /\ errs[1].msg_kind = FIELD_PARSE_ERROR
         /\ errs[1].message.field = "minute"
         /\ errs[2].msg_kind = FIELD_VALUE_ERROR
         /\ errs[2].message.field = "minute"
         /\ errs[2].message.value = 60
         /\ errs[3].msg_kind = FIELD_VALUE_ERROR
         /\ errs[3].message.field = "hour"
  /\ Len(log.line_errors) = 3

(***************************************************************************)
(* Claims about the classifier and the validators of the lines, checked    *)
(* under SpecShort.                                                        *)
(***************************************************************************)
\* Line j of the file is of the class.
LineIs(j, class) == ClassOfLine[file[j]].class = class

\* The number of findings of the kind that line j raises.
Raises(j, kind) ==
  Cardinality({i \in 1..Len(validated[j]) :
                 /\ IsFinding(validated[j][i])
                 /\ validated[j][i].msg_kind = kind})

BareStar == <<"*">>

\* For each schedule line: whether its minutes and its hours are a bare
\* star, and whether they parse.
MinutesAndHours ==
  [raw \in {r \in Lines \cup ShortFileLines :
              ClassOfLine[r].class = "CronLineTime"} |->
     LET fields == ClassOfLine[raw].time_field
     IN  [minute_star |-> fields["minute"] = BareStar,
          hour_star |-> fields["hour"] = BareStar,
          minute_parses |-> ValidField(fields["minute"]),
          hour_parses |-> ValidField(fields["hour"])]]

\* C21 as stated: a schedule line raises HOURS_NOT_MINUTES exactly when its
\* minute field is a bare '*' and its hour field is not, a field that fails
\* to parse being like any other field that is not '*'.
C21_BareStarMinutesOnly ==
  \A j \in 1..Len(file) :
    LineIs(j, "CronLineTime") =>
      Raises(j, HOURS_NOT_MINUTES) =
        Bit(MinutesAndHours[file[j]].minute_star
            /\ ~MinutesAndHours[file[j]].hour_star)

\* C21, the part that holds: when the minute field and the hour field both
\* parse, the line raises HOURS_NOT_MINUTES, once, exactly when its minute
\* field is a bare '*' and its hour field is not.
C21_ParsedMinutesAndHours ==
  \A j \in 1..Len(file) :
    (/\ LineIs(j, "CronLineTime")
     /\ MinutesAndHours[file[j]].minute_parses
     /\ MinutesAndHours[file[j]].hour_parses) =>
      Raises(j, HOURS_NOT_MINUTES) =
        Bit(MinutesAndHours[file[j]].minute_star
            /\ ~MinutesAndHours[file[j]].hour_star)

\* C21 witness: a line of minutes '*' and hours '*,*' has got its warning.
C21_Witness ==
  /\ LineValidated
  /\ LineIs(cur_line_no, "CronLineTime")
  /\ ClassOfLine[file[cur_line_no]].time_field["minute"] = BareStar
  /\ ClassOfLine[file[cur_line_no]].time_field["hour"] = <<"*", ",", "*">>
  /\ Raises(cur_line_no, HOURS_NOT_MINUTES) = 1
  /\ \E i \in 1..Len(log.line_warns) :
       log.line_warns[i][1] = HOURS_NOT_MINUTES

\* For each assignment line, of its right-hand side, the text after its
\* first '=': whether it has no character other than whitespace, and
\* whether it has a '$'.
RightHandSide ==
  [raw \in {r \in Lines \cup ShortFileLines :
              ClassOfLine[r].class = "CronLineAssignment"} |->
     LET eq == CHOOSE i \in 1..Len(raw) :
                 raw[i] = "=" /\ \A k \in 1..(i - 1) : raw[k] # "="
     IN  [blank |-> \A i \in (eq + 1)..Len(raw) : raw[i] \in Whitespace,
          dollar |-> \E i \in (eq + 1)..Len(raw) : raw[i] = "$"]]

JobLineAt(j) == ClassOfLine[file[j]].class \in {"CronLineAt", "CronLineTime"}

\* The periods an @ line can name.
KnownPeriods ==
  {<<"r", "e", "b", "o", "o", "t">>,
   <<"y", "e", "a", "r", "l", "y">>,
   <<"a", "n", "n", "u", "a", "l", "l", "y">>,
   <<"m", "o", "n", "t", "h", "l", "y">>,
   <<"w", "e", "e", "k", "l", "y">>,
   <<"d", "a", "i", "l", "y">>,
   <<"m", "i", "d", "n", "i", "g", "h", "t">>,
   <<"h", "o", "u", "r", "l", "y">>}

\* For each line with a user and a command: whether the name of the user is
\* malformed, whether the host knows the user, whether the command has a
\* '%' at its start or after a character other than a backslash, and, for
\* an @ line, whether its period, the text from after the '@' to the first
\* whitespace, is a known one.
JobFacts ==
  [raw \in {r \in Lines \cup ShortFileLines :
              ClassOfLine[r].class \in {"CronLineAt", "CronLineTime"}} |->
     LET user == ClassOfLine[raw].user
         command == ClassOfLine[raw].command
         space == CHOOSE i \in 1..Len(raw) :
                    raw[i] \in Whitespace
                    /\ \A k \in 1..(i - 1) : raw[k] \notin Whitespace
     IN  [user |-> user,
          too_long |-> Len(user) > UserNameMax,
          malformed |-> \/ Len(user) > UserNameMax
                        \/ user[1] = "-"
                        \/ \E i \in 1..Len(user) : user[i] \in InvalidUserChars,
          known |-> user \in PasswdUsers,
          bare_percent |-> \E i \in 1..Len(command) :
                             /\ command[i] = "%"
                             /\ i > 1 => command[i - 1] # "\\",
          period_known |-> SubSeq(raw, 2, space - 1) \in KnownPeriods]]

\* The user of the line is in the whitelist: the default set and what the
\* caller of check_crontab added.
Whitelisted(raw) ==
  JobFacts[raw].user \in InitialUserWhitelist \cup whitelisted_users

\* The kinds of the findings the user and the command of a line get, in
\* the order of the checks.
UserAndCommandKinds(raw) ==
  IF Whitelisted(raw) THEN <<>>
  ELSE (IF JobFacts[raw].malformed THEN <<INVALID_USER>>
        ELSE IF ~JobFacts[raw].known THEN <<USER_NOT_FOUND>>
        ELSE <<>>)
       \o (IF JobFacts[raw].bare_percent THEN <<BARE_PERCENT>> ELSE <<>>)

\* The kinds of the findings of line j, in the order they are raised.
KindsOf(j) == [i \in 1..Len(validated[j]) |-> validated[j][i].msg_kind]

\* C23: an @ line raises INVALID_AT, an error, exactly when its period is
\* not one of reboot, yearly, annually, monthly, weekly, daily, midnight and
\* hourly, letter for letter; the checks of the user and of the command
\* come after it and give what they give for a valid period.
C23_AtPeriod ==
  \A j \in 1..Len(file) :
    LineIs(j, "CronLineAt") =>
      /\ \A i \in 1..Len(validated[j]) : IsFinding(validated[j][i])
      /\ Raises(j, INVALID_AT) = Bit(~JobFacts[file[j]].period_known)
      /\ KindsOf(j) =
           (IF JobFacts[file[j]].period_known THEN <<>> ELSE <<INVALID_AT>>)
           \o UserAndCommandKinds(file[j])
      /\ ~JobFacts[file[j]].period_known => IsLineError(validated[j][1])

\* C23 witness: an @never line of an unknown user and a command with a bare
\* '%' has got its three findings.
C23_Witness ==
  /\ LineValidated
  /\ LineIs(cur_line_no, "CronLineAt")
  /\ ~JobFacts[file[cur_line_no]].period_known
  /\ KindsOf(cur_line_no) = <<INVALID_AT, USER_NOT_FOUND, BARE_PERCENT>>
  /\ Len(log.line_errors) = 1
  /\ Len(log.line_warns) = 2

\* The calls of line j that raise a finding of the kind.
CallsOf(j, kind) ==
  {validated[j][i] : i \in {k \in 1..Len(validated[j]) :
                              /\ IsFinding(validated[j][k])
                              /\ validated[j][k].msg_kind = kind}}

IsTimeFinding(c) ==
  /\ IsFinding(c)
  /\ c.msg_kind \in {FIELD_PARSE_ERROR, FIELD_VALUE_ERROR, HOURS_NOT_MINUTES,
                     INVALID_AT}

\* For each time of the lines of a short file: the findings about the time
\* that a line of this time, of the user root and of the command 'true'
\* raises.
TimeFindings ==
  [time \in ScheduleTimes \cup AtPeriods |->
     SelectSeq(ValidateAndLog(ParseLine(JobLine(time, <<"r", "o", "o", "t">>,
                                                <<"t", "r", "u", "e">>)),
                              InitialUserWhitelist),
               IsTimeFinding)]

\* The times the raw line starts with.
TimesOf(raw) ==
  {time \in ScheduleTimes \cup AtPeriods :
     /\ Len(raw) > Len(time)
     /\ SubSeq(raw, 1, Len(time) + 1) = time \o <<" ">>}

\* C25: a line whose user is in the whitelist, the default one or what the
\* caller added to it, raises no INVALID_USER, no USER_NOT_FOUND and no
\* BARE_PERCENT; what it raises about its time is what a line of the same
\* time raises with any other user.
C25_WhitelistedUser ==
  \A j \in 1..Len(file) :
    JobLineAt(j) =>
      /\ Whitelisted(file[j]) =>
           /\ Raises(j, INVALID_USER) = 0
           /\ Raises(j, USER_NOT_FOUND) = 0
           /\ Raises(j, BARE_PERCENT) = 0
           /\ \A i \in 1..Len(validated[j]) : IsTimeFinding(validated[j][i])
      /\ \A time \in TimesOf(file[j]) :
           SelectSeq(validated[j], IsTimeFinding) = TimeFindings[time]

\* C25 witness: the caller has whitelisted nouser, and a line of nouser with
\* hours that are not minutes and a bare '%' has got the warning about its
\* hours and nothing else.
C25_Witness ==
  /\ LineValidated
  /\ JobLineAt(cur_line_no)
  /\ JobFacts[file[cur_line_no]].user \in whitelisted_users
  /\ JobFacts[file[cur_line_no]].user \notin InitialUserWhitelist
  /\ JobFacts[file[cur_line_no]].bare_percent
  /\ TimesOf(file[cur_line_no]) # {}
  /\ KindsOf(cur_line_no) = <<HOURS_NOT_MINUTES>>
  /\ log.warn_count - NameWarns = 1

RECURSIVE WordsOf(_)
WordsOf(s) ==
  IF Len(s) = 0 THEN <<>>
  ELSE IF s[1] \in Whitespace THEN WordsOf(Tail(s))
  ELSE LET n == CHOOSE k \in 1..Len(s) :
                  /\ \A i \in 1..k : s[i] \notin Whitespace
                  /\ k = Len(s) \/ s[k + 1] \in Whitespace
       IN  <<SubSeq(s, 1, n)>> \o WordsOf(SubSeq(s, n + 1, Len(s)))

\* The raw line, from its first word on, is a name, whitespace or none, and
\* a '='.
LooksLikeAssignment(raw) ==
  \E first, last, eq \in 1..Len(raw) :
    /\ first <= last
    /\ last < eq
    /\ \A i \in 1..(first - 1) : raw[i] \in Whitespace
    /\ raw[first] \in AsciiLetters \cup {"_"}
    /\ \A i \in (first + 1)..last : raw[i] \in AsciiLetters \cup DigitSet \cup {"_"}
    /\ \A i \in (last + 1)..(eq - 1) : raw[i] \in Whitespace
    /\ raw[eq] = "="

\* The rule of the classifier that takes the raw line: the first, in the
\* order blank, '#', assignment, @period, schedule, that the line fits.
RuleOf(raw) ==
  LET words == WordsOf(raw)
  IN  IF words = <<>> THEN "blank"
      ELSE IF words[1][1] = "#" THEN "sharp"
      ELSE IF LooksLikeAssignment(raw) THEN "assignment"
      ELSE IF words[1][1] = "@" /\ Len(words[1]) > 1 /\ Len(words) > 2
        THEN "at"
      ELSE IF /\ Len(words) > 6
              /\ \A k \in 1..5 : \A i \in 1..Len(words[k]) :
                   words[k][i] \in {"*", ",", "/", "-"} \cup DigitSet
                                   \cup AsciiLetters
        THEN "schedule"
      ELSE "unrecognized"

\* The rule of each line a file can hold.
RuleOfLine == [raw \in Lines \cup ShortFileLines |-> RuleOf(raw)]

\* The classes of lines that the rule gives.
ClassesOfRule ==
  [rule \in {"blank", "sharp", "assignment", "at", "schedule",
             "unrecognized"} |->
     CASE rule = "blank" -> {"CronLineEmpty"}
       [] rule = "sharp" -> {"CronLineChkCrontabCmd", "CronLineComment"}
       [] rule = "assignment" -> {"CronLineAssignment"}
       [] rule = "at" -> {"CronLineAt"}
       [] rule = "schedule" -> {"CronLineTime"}
       [] rule = "unrecognized" -> {"CronLineUnknown"}]

\* C27: the class of a line is that of the first rule it fits, in the order
\* blank, '#' line, assignment, @period, schedule of five fields,
\* unrecognized: a line that is empty or of whitespace only is blank and
\* raises nothing, and a line that starts with '#' is a directive or a
\* comment and nothing else.
C27_Classifier ==
  \A j \in 1..Len(file) :
    /\ ClassOfLine[file[j]].class \in ClassesOfRule[RuleOfLine[file[j]]]
    /\ (\A i \in 1..Len(file[j]) : file[j][i] \in Whitespace) =>
         LineIs(j, "CronLineEmpty") /\ validated[j] = <<>>
    /\ (\E i \in 1..Len(file[j]) :
          /\ file[j][i] = "#"
          /\ \A k \in 1..(i - 1) : file[j][k] \in Whitespace) =>
         LineIs(j, "CronLineChkCrontabCmd") \/ LineIs(j, "CronLineComment")
    /\ LineIs(j, "CronLineComment") => validated[j] = <<>>
    /\ LineIs(j, "CronLineUnknown") =>
         KindsOf(j) = <<LINE_ERROR>> /\ IsLineError(validated[j][1])

\* C27 witness: a line of a tab only has been read as a blank line, and
\* nothing was printed for it.
C27_Witness ==
  /\ pc = "lines"
  /\ cur_line_no = 1
  /\ file = << <<"\t", "\n">> >>
  /\ LineIs(1, "CronLineEmpty")
  /\ validated = << <<>> >>
  /\ log.error_count = 0
  /\ output = IF NameWarns = 1 THEN WarnOutput(FileNameMessage) ELSE <<>>

(***************************************************************************)
(* Claims about what check_crontab returns, checked under Spec.            *)
(***************************************************************************)
\* C28 as stated: a path that does not exist is told at once in a message
\* of its own that adds to a count, so that a new log gives a verdict other
\* than 0; no line is handled and nothing is buffered.
C28_MissingFileReported ==
  (pc = "done" /\ ~crontab_file.exists) =>
    /\ output # <<>>
    /\ log.error_count + log.warn_count > 0
    /\ rc # 0
    /\ file = <<>>
    /\ log.line_errors = <<>>
    /\ log.line_warns = <<>>

\* C28, the part that holds: for a path that does not exist no line is
\* handled and nothing is buffered; check_crontab returns the Summary of
\* the log as it was given, which for a new log prints nothing and is 0.
C28_MissingFileSilent ==
  ~crontab_file.exists =>
    /\ file = <<>>
    /\ validated = <<>>
    /\ log = NewLogCounter
    /\ USER_WHITELIST = InitialUserWhitelist
    /\ output = <<>>
    /\ pc \in {"call", "done"}
    /\ pc = "done" => rc = 0

\* C28 witness: check_crontab has returned 0 for a path that does not
\* exist.
C28_Witness ==
  /\ pc = "done"
  /\ ~crontab_file.exists
  /\ rc = 0
  /\ output = <<>>

CallsOfLine ==
  [raw \in Lines |->
     [given \in WhitelistedUsers |->
        ValidateAndLog(ClassOfLine[raw], InitialUserWhitelist \cup given)]]

\* The lines whose number and text have been printed, in the order of the
\* output.
PrintedLines ==
  LET IsHeader(o) == "line_no" \in DOMAIN o
      headers == SelectSeq(output, IsHeader)
  IN  [i \in 1..Len(headers) |-> headers[i].line_no]

\* The lines read so far have each been classified and validated once, in
\* the order of the file; each has been flushed before the next is read;
\* every category raised is a known one.
LinesInOrder ==
  /\ cur_line_no = Len(file)
  /\ Len(validated) = Len(file)
  /\ \A j \in 1..Len(file) :
       /\ validated[j] = CallsOfLine[file[j]][whitelisted_users]
       /\ \A i \in 1..Len(validated[j]) :
            IsFinding(validated[j][i]) =>
              validated[j][i].msg_kind \in MsgKinds
  /\ pc \in {"call", "lines", "done"} =>
       /\ pending = <<>>
       /\ log.line_errors = <<>>
       /\ log.line_warns = <<>>
  /\ pc \in {"validate", "raised"} =>
       \E n \in 0..Len(validated[cur_line_no]) :
         pending = SubSeq(validated[cur_line_no], n + 1,
                          Len(validated[cur_line_no]))
  /\ LET printed == PrintedLines
     IN  /\ \A i \in 1..Len(printed) :
              printed[i] \in 1..Len(file)
              /\ \A k \in 1..(i - 1) : printed[k] < printed[i]
         /\ pc \in {"validate", "raised"} =>
              \A i \in 1..Len(printed) : printed[i] < cur_line_no
  /\ pc = "done" => rc \in {0, 1, 2}

\* No call has failed, and the lines are processed in order.
RunInOrder ==
  /\ pc # "raised"
  /\ \A j \in 1..Len(validated) :
       \A i \in 1..Len(validated[j]) : validated[j][i].op # "raise"
  /\ LinesInOrder

\* Line j is a schedule or @period line whose user holds the character of
\* code 0 and is in neither whitelist, and whose user name passes the three
\* tests made before the lookup.
NulUserAt(j) ==
  LET cl == ClassOfLine[file[j]]
  IN  /\ cl.class \in {"CronLineAt", "CronLineTime"}
      /\ Contains(cl.user, Nul)
      /\ cl.user \notin USER_WHITELIST
      /\ Len(cl.user) <= UserNameMax
      /\ cl.user[1] # "-"

\* C30: nothing aborts a run: every line of the file is classified, then
\* validated, then flushed, once and in the order of the file, whatever the
\* lines before it raised or failed to parse; every category a validator
\* raises is a known one, so that no call on the log fails; and the run
\* ends by returning a verdict.
C30_RunEnds == []RunInOrder /\ <>(pc = "done" /\ rc \in {0, 1, 2})

\* C30, what holds: the lines are processed once and in order until the
\* run ends; the run ends with a verdict or with the ValueError of the user
\* lookup, and it ends with the error only on a line whose user holds the
\* character of code 0; the line is then not flushed, its findings stay in
\* the buffers and no verdict is given.
C30_AbortsOnlyInUserLookup ==
  /\ [](/\ LinesInOrder
        /\ pc = "raised" =>
             /\ NulUserAt(cur_line_no)
             /\ pending = <<>>
             /\ rc = None
             /\ \A j \in 1..(cur_line_no - 1) : ~NulUserAt(j)
        /\ (pc # "raised" /\ pending = <<>>) =>
             \A j \in 1..Len(file) : ~NulUserAt(j))
  /\ <>(pc \in {"done", "raised"})

\* C30 witness: the second line of a file has a user with the character of
\* code 0: the first line has been printed with its finding, the second has
\* not, its error is left in the queue, and the run has ended without a
\* verdict.
C30_Witness ==
  /\ pc = "raised"
  /\ Len(file) = 2
  /\ Len(log.line_errors) = 1
  /\ Raises(1, SHELL_VAR) = 1
  /\ NulUserAt(2)
  /\ PrintedLines = <<1>>

(***************************************************************************)
(* Claims about calls of Run sharing one FSM instance, checked under       *)
(* SpecPar.                                                                *)
(***************************************************************************)

\* The run state of InitCronFSM().Run(f) on an instance of its own after n
\* iterations of its loop, and after the statements that follow the loop
\* for n = Len(f) + 1.
RECURSIVE FreshAfter(_, _)
FreshAfter(f, n) ==
  IF n = 0
    THEN [pc |-> "loop", cur_state |-> "start", parsed |-> <<>>,
          data_out |-> InitCronFSM.data_out_init]
  ELSE LET rs == FreshAfter(f, n - 1)
       IN  IF rs.pc # "loop" THEN rs
           ELSE IF n <= Len(f) THEN LoopBody(InitCronFSM, rs, f, f[n])
           ELSE AfterLoop(InitCronFSM, rs)

FreshRuns ==
  [f \in ParFields |-> [n \in 0..(Len(f) + 1) |-> FreshAfter(f, n)]]

\* What Run returns for each field on an instance of its own.
FreshOutcomes == [f \in ParFields |-> Run(f)]

\* C31: a call of Run changes neither the transitions, nor the end states,
\* nor the initial data of the instance; whatever calls were made before it
\* on the instance and whatever calls are in progress beside it, taking
\* their loop iterations in any order, a call is after each iteration where
\* a call on a new instance is, and returns what that call returns.
C31_SharedInstance ==
  /\ the_fsm = InitCronFSM
  /\ \A p \in Parses :
       LET f == parses[p].data_in
       IN  /\ parses[p].pc = "loop" =>
                ParRun(p) = FreshRuns[f][parses[p].idx - 1]
           /\ parses[p].pc \in {"returned", "raised"} =>
                /\ ParRun(p) = FreshRuns[f][Len(f) + 1]
                /\ ParRun(p).data_out = FreshOutcomes[f]

\* C31 witness: two calls with different fields are both inside their loops
\* with a token each, on an instance that has seen a call return before.
C31_Witness ==
  /\ run_no > MaxParses
  /\ \E p1, p2 \in Parses :
       /\ parses[p1].data_in # parses[p2].data_in
       /\ \A p \in {p1, p2} :
            /\ parses[p].pc = "loop"
            /\ parses[p].idx > 1
            /\ Len(ParRun(p).data_out.cron_times) = 1

(***************************************************************************)
(* The parts of a parser_error, checked under SpecFSM.                     *)
(***************************************************************************)

\* C33: when Run returns on a character without a transition, the consumed
\* prefix, the offending character and the unconsumed suffix of its
\* parser_error make up the input when put one after the other, the prefix
\* is what the loop has consumed and the character has no transition in the
\* state reached; when the input ends in a state without an end action,
\* the parser_error names the whole input as incomplete.
C33_ErrorParts ==
  (fsm_pc = "returned" /\ HasError(data_out)) =>
    LET e == data_out.parser_error
    IN  IF "incomplete" \in DOMAIN e
          THEN /\ e.incomplete = data_in
               /\ parsed = data_in
               /\ steps = Len(data_in)
               /\ cur_state \notin DOMAIN InitCronFSM.end
        ELSE /\ e.parsed \o <<e.char>> \o e.rest = data_in
             /\ e.parsed = parsed
             /\ e.parsed = SubSeq(data_in, 1, steps - 1)
             /\ e.char = data_in[steps]
             /\ e.rest = SubSeq(data_in, steps + 1, Len(data_in))
             /\ Lookup(InitCronFSM, cur_state, e.char) = <<None, None>>

\* C33 witness: Run has stopped on a character in the middle of a field,
\* with characters consumed before it and characters left after it.
C33_Witness ==
  /\ fsm_pc = "returned"
  /\ HasError(data_out)
  /\ "char" \in DOMAIN data_out.parser_error
  /\ Len(data_out.parser_error.parsed) >= 2
  /\ Len(data_out.parser_error.rest) >= 1

(***************************************************************************)
(* Claims about the LogCounter under any calls, checked under SpecLog.     *)
(***************************************************************************)

\* C34: a call of Warn adds one to warn_count and a call of Error adds one
\* to error_count, whatever categories are suppressed and whatever is
\* queued; either prints its message at once and leaves the other count,
\* the two queues and the suppression set as they were.
C34_ImmediateCounts ==
  [][ \A m \in LogMessages :
        /\ LogWarn(m) =>
             /\ log' = [log EXCEPT !.warn_count = @ + 1]
             /\ output' = Append(output, [tag |-> "W:", message |-> m])
        /\ LogError(m) =>
             /\ log' = [log EXCEPT !.error_count = @ + 1]
             /\ output' = Append(output, [tag |-> "E:", message |-> m])
    ]_vars

\* C34 witness: with every category suppressed and a warning queued, a
\* warning and an error have been printed at once and counted.
C34_Witness ==
  /\ pc \in {"log", "summarized"}
  /\ log.ignored = LogKinds
  /\ Len(log.line_warns) = 1
  /\ log.line_errors = <<>>
  /\ log.warn_count = 2
  /\ log.error_count = 1
  /\ Len(output) = 2

(***************************************************************************)
(* The suppression set under the directives of a file, checked under Spec. *)
(***************************************************************************)

\* Line j is a directive with a known command for a known category.
ValidDirective(cls, j) ==
  \E C \in MsgKinds :
    IsDirective(cls, j, DisableMsg, C) \/ IsDirective(cls, j, EnableMsg, C)

\* C36: between two lines, a known category is suppressed exactly when the
\* last directive naming it is a disable-msg, however many disable-msg
\* directives came before an enable-msg, and whatever directives name other
\* categories; a directive for a known category makes one call of Ignore or
\* Unignore with the category and raises nothing, be the category
\* suppressed already or not.
C36_SuppressionIsSet ==
  LET cls == LineClasses
  IN  /\ pc \in {"lines", "done"} =>
           log.ignored \cap MsgKinds =
             {C \in MsgKinds : Suppressed(cls, C, Len(file) + 1)}
      /\ \A j \in 1..Len(file) :
           ValidDirective(cls, j) =>
             /\ Len(validated[j]) = 1
             /\ validated[j][1].op =
                  (IF cls[j].command = DisableMsg THEN "Ignore"
                   ELSE "Unignore")
             /\ validated[j][1].msg_kind = cls[j].msg_kind

\* C36 witness: a file disables a category twice and enables it once: the
\* category is not suppressed at the end, and nothing has been counted.
C36_Witness ==
  /\ pc = "done"
  /\ Len(file) = 3
  /\ log.error_count + log.warn_count = 0
  /\ \E C \in MsgKinds :
       /\ C \notin log.ignored
       /\ IsDirective(LineClasses, 1, DisableMsg, C)
       /\ IsDirective(LineClasses, 2, DisableMsg, C)
       /\ IsDirective(LineClasses, 3, EnableMsg, C)

\* C38: no call of a method of the log makes error_count or warn_count
\* smaller, so that what Summary would return never gets smaller either;
\* Ignore, Unignore, Emit and Summary leave the two counts as they are: a
\* category suppressed after a finding of it was counted keeps the finding
\* counted.
C38_CountsNeverDecrease ==
  [][ /\ log'.error_count >= log.error_count
      /\ log'.warn_count >= log.warn_count
      /\ Summary(log') >= Summary(log)
      /\ (\/ \E k \in LogKinds : LogIgnore(k) \/ LogUnignore(k)
          \/ \E n \in EmitLineNos : LogEmit(n)
          \/ LogSummary) =>
           /\ log'.error_count = log.error_count
           /\ log'.warn_count = log.warn_count
    ]_vars

\* C38 witness: a warning was queued and counted, its category has been
\* suppressed since and the queue emitted: the warning is still counted and
\* Summary has returned 1.
C38_Witness ==
  /\ pc = "summarized"
  /\ rc = 1
  /\ log.warn_count = 1
  /\ SHELL_VAR \in log.ignored
  /\ log.line_warns = <<>>
  /\ \E i \in 1..Len(output) :
       /\ output[i].tag = "w:"
       /\ output[i].message[1] = SHELL_VAR

(***************************************************************************)
(* What Emit prints for the lines of a file, checked under Spec.           *)
(***************************************************************************)

IsHeaderEntry(o) == "line_no" \in DOMAIN o

IsQueuedEntry(o) == o.tag \in {"e:", "w:"}

\* The places in the output of the headers of line j.
HeadersOf(j) ==
  {i \in 1..Len(output) : IsHeaderEntry(output[i]) /\ output[i].line_no = j}

\* The queued messages printed right after place i, up to the next entry
\* that is not one.
EmittedUnder(i) ==
  LET stops == {k \in (i + 1)..(Len(output) + 1) :
                  k = Len(output) + 1 \/ ~IsQueuedEntry(output[k])}
      stop == CHOOSE k \in stops : \A m \in stops : k <= m
  IN  [n \in 1..(stop - i - 1) |-> output[i + n].message]

\* The lines as check_crontab strips them.
StrippedLines == [raw \in Lines \cup ShortFileLines |-> Strip(raw)]

\* The number of times x is in the sequence.
CountIn(seq, x) == Cardinality({i \in 1..Len(seq) : seq[i] = x})

\* The counted findings of line j are printed once each under one header
\* with the number and the text of line j, and a line without a counted
\* finding has no header.
EmittedOnce(j) ==
  LET c == Messages(Counted[j])
      hs == HeadersOf(j)
  IN  IF c = <<>> THEN hs = {}
      ELSE /\ Cardinality(hs) = 1
           /\ LET h == CHOOSE i \in hs : TRUE
                  em == EmittedUnder(h)
              IN  /\ output[h].line = StrippedLines[file[j]]
                  /\ Len(em) = Len(c)
                  /\ \A i \in 1..Len(c) : CountIn(em, c[i]) = CountIn(c, c[i])

\* Emit has been called for line j.
Flushed(j) == j < cur_line_no \/ pc \in {"lines", "done"}

\* The queues are empty where the validation of a line starts and wherever
\* no line is being validated.
QueuesEmptyBetweenLines ==
  (\/ pc \in {"call", "lines", "done"}
   \/ (pc = "validate" /\ pending = validated[cur_line_no])) =>
    /\ log.line_errors = <<>>
    /\ log.line_warns = <<>>

\* C32: the queues are empty at the start of the validation of every line,
\* and every counted finding of every line read is printed exactly once,
\* under one header with the number of its line, once the run has ended.
C32_EveryFindingEmitted ==
  /\ QueuesEmptyBetweenLines
  /\ pc \in {"done", "raised"} => \A j \in 1..Len(file) : EmittedOnce(j)

\* C32, what holds: the queues are empty at the start of the validation of
\* every line; every counted finding of a line for which Emit was called is
\* printed exactly once, under one header with the number of the line; a
\* line being validated has no header yet; and when the user lookup raises,
\* the counted findings of its line stay in the queues and are not printed.
C32_FlushedFindingsEmitted ==
  /\ QueuesEmptyBetweenLines
  /\ \A j \in 1..Len(file) :
       IF Flushed(j) THEN EmittedOnce(j) ELSE HeadersOf(j) = {}
  /\ pc = "raised" =>
       /\ log.line_errors =
            Messages(SelectSeq(Counted[cur_line_no], IsLineError))
       /\ log.line_warns =
            Messages(SelectSeq(Counted[cur_line_no], IsLineWarn))

\* C32 witness: the run has ended in the user lookup of its second line
\* with an error of the line counted and queued; the first line has been
\* printed with its finding, the second has no header.
C32_Witness ==
  /\ pc = "raised"
  /\ cur_line_no = 2
  /\ Len(Counted[1]) = 1
  /\ EmittedOnce(1)
  /\ Len(log.line_errors) = 1
  /\ log.error_count >= 1
  /\ HeadersOf(2) = {}

(***************************************************************************)
(* The order of what Emit prints, checked under SpecShort.                 *)
(***************************************************************************)

\* C35: for a line with counted findings Emit prints a header marked as an
\* error when the line has a counted error and as a warning when it has
\* warnings only, then the errors of the line in the order they were
\* raised, then its warnings in the order they were raised, whatever the
\* order errors and warnings were raised in among each other.
C35_ErrorsBeforeWarnings ==
  \A j \in 1..Len(file) :
    (Flushed(j) /\ Counted[j] # <<>>) =>
      LET errs == Messages(SelectSeq(Counted[j], IsLineError))
          warns == Messages(SelectSeq(Counted[j], IsLineWarn))
      IN  /\ HeadersOf(j) # {}
          /\ \A h \in HeadersOf(j) :
               /\ output[h].tag = (IF errs # <<>> THEN "E:" ELSE "W:")
               /\ Len(output) >= h + Len(errs) + Len(warns)
               /\ \A i \in 1..Len(errs) :
                    /\ output[h + i].tag = "e:"
                    /\ output[h + i].message = errs[i]
               /\ \A i \in 1..Len(warns) :
                    /\ output[h + Len(errs) + i].tag = "w:"
                    /\ output[h + Len(errs) + i].message = warns[i]
               /\ EmittedUnder(h) = errs \o warns

\* C35 witness: a line has raised an error, a warning, a second error and a
\* second warning, in this order, and has been printed.
C35_Witness ==
  /\ pc = "done"
  /\ Len(file) = 1
  /\ Len(Counted[1]) = 4
  /\ IsLineError(Counted[1][1])
  /\ IsLineWarn(Counted[1][2])
  /\ IsLineError(Counted[1][3])
  /\ IsLineWarn(Counted[1][4])
  /\ HeadersOf(1) # {}

(***************************************************************************)
(* The whitelist over several calls of check_crontab, checked under        *)
(* SpecCalls.                                                              *)
(***************************************************************************)

\* The log after the calls of a sequence, up to an exception.
RECURSIVE LogAfter(_, _)
LogAfter(l, cs) ==
  IF cs = <<>> \/ Head(cs).op = "raise" THEN l
  ELSE LET c == Head(cs)
           next == CASE c.op = "LineError" ->
                          LineError(l, c.msg_kind, c.message)
                     [] c.op = "LineWarn" ->
                          LineWarn(l, c.msg_kind, c.message)
                     [] c.op = "Ignore" -> Ignore(l, c.msg_kind)
                     [] c.op = "Unignore" -> Unignore(l, c.msg_kind)
       IN  LogAfter(next, Tail(cs))

\* For each line of CallLines and each whitelist argument: the class of the
\* line and the calls its validator makes in a first call.
CallLineTable ==
  [raw \in CallLines |->
     [class |-> ParseLine(Strip(raw)),
      calls |-> [given \in WhitelistedUsers |->
                   ValidateAndLog(ParseLine(Strip(raw)),
                                  InitialUserWhitelist \cup given)]]]

\* The log a call of check_crontab on the file read, with a new LogCounter
\* and the users of given as its whitelist argument, ends with when it is
\* the first call in its process.
FirstCallLog(given) ==
  LET start == IF crontab_file.exists /\ FileNameWarns(crontab_file.basename)
                 THEN Warn(NewLogCounter, FileNameMessage)
                 ELSE NewLogCounter
      cs == Flatten([j \in 1..Len(file) |-> CallLineTable[file[j]].calls[given]])
  IN  LogAfter(start, cs)

\* The counts and the verdict of the call that has returned are those of a
\* first call with the users of given as its whitelist argument.
SameResultAs(given) ==
  LET l == FirstCallLog(given)
  IN  /\ log.error_count = l.error_count
      /\ log.warn_count = l.warn_count
      /\ rc = Summary(l)

\* C37: a call of check_crontab made without a whitelist argument and with
\* a new LogCounter ends with the counts and the verdict of such a call
\* made first in its process, whatever whitelist arguments earlier calls
\* were made with.
C37_WhitelistOfTheCallOnly ==
  (pc = "done" /\ whitelisted_users = {}) => SameResultAs({})

\* C37, what holds: the first call of a process ends with the counts and
\* the verdict its file and its whitelist argument give; USER_WHITELIST
\* keeps the users of every whitelist argument given so far with a file
\* that exists, and a later call ends with the counts and the verdict of a
\* first call given all of them.
C37_WhitelistAccumulates ==
  /\ InitialUserWhitelist \subseteq USER_WHITELIST
  /\ (crontab_file.exists /\ pc # "call") =>
       whitelisted_users \subseteq USER_WHITELIST
  /\ pc = "done" =>
       /\ SameResultAs(USER_WHITELIST \ InitialUserWhitelist)
       /\ call_no = 1 => SameResultAs(whitelisted_users)

\* C37 witness: the second call, made without a whitelist argument, has
\* returned 0 for a file whose line has the user an earlier call was given
\* as whitelisted; made first, the call would have returned 1.
C37_Witness ==
  /\ pc = "done"
  /\ call_no = 2
  /\ whitelisted_users = {}
  /\ Len(file) = 1
  /\ CallLineTable[file[1]].class.class = "CronLineTime"
  /\ CallLineTable[file[1]].class.user \in USER_WHITELIST \ InitialUserWhitelist
  /\ rc = 0
  /\ Summary(FirstCallLog({})) = 1

====
